---- MODULE Spec2Model ----
(***************************************************************************)
(* Verification model of the lewis compiler back-end (managarm/lewis):     *)
(* the SSA def-use graph (ir.cpp), instruction lowering (lower-code.cpp),  *)
(* the x86-64 register allocator (alloc-regs.cpp), the machine-code        *)
(* emitter (mc-emitter.cpp) and the ELF passes (layout-pass.cpp,           *)
(* internal-link-pass.cpp, file-emitter.cpp).                              *)
(*                                                                         *)
(* Pointers are modelled as indices into the sequence that holds the       *)
(* pointed-to objects; Null (0) is the null pointer.                       *)
(***************************************************************************)
EXTENDS Integers, Sequences, FiniteSets, TLC

VARIABLES
    \* ---- IR object graph (ir.hpp, arch-ir.hpp) ----
    vals,       \* Values: kind, type, operand size, register, use-list
    uses,       \* ValueUses: owning instruction and _ref
    insts,      \* Instructions: kind, owning block, result origins, operand uses
    blocks,     \* BasicBlocks of the Function: phis, instruction order, branch, edges
    branches,   \* Branches: kind, operand uses, targets
    phis,       \* PhiNodes: kind, value origin, sink edges
    edges,      \* DataFlowEdges: alias use, source block, sink phi
    pc,         \* position of the driver in the pipeline
    rewrites,   \* history: the value replacements done by the lowering pass
    \* ---- history of the last def-use operation (for relational claims) ----
    lastOp,
    allocator,      \* the AllocateRegistersImpl object of the pipeline
    \* ---- ELF object (object.hpp) ----
    fragments,      \* Object::_fragments, in insertion order
    strings,        \* Object::_strings
    symbols,        \* Object::_symbols
    relocations,    \* Object::_relocations (external pool)
    internalRelocations,    \* Object::_internalRelocations
    numSections,    \* Object::_numSections
    fileEmitter,    \* the FileEmitterImpl object: its buffer and where it stopped
    mcEmitter,      \* the MachineCodeEmitter object that ran last, with history
    \* ---- history of the layout pass ----
    layoutRuns,     \* number of LayoutPass::run() calls so far
    sinceLayout,    \* number of Object mutations since the last run
    prevLayout      \* metadata produced by the run before the last one

irVars == <<vals, uses, insts, blocks, branches, phis, edges, pc, rewrites, lastOp,
           allocator>>
elfVars == <<fragments, strings, symbols, relocations, internalRelocations,
             numSections, fileEmitter, mcEmitter, layoutRuns, sinceLayout, prevLayout>>
\* The Function and the allocator; the members of the Object
functionVars == <<vals, uses, insts, blocks, branches, phis, edges, rewrites,
                 lastOp, allocator>>
objectVars == <<fragments, strings, symbols, relocations, internalRelocations,
               numSections>>
vars == <<irVars, elfVars>>

Null == 0
None == -1      \* an empty std::optional

\* With([x \in {e} |-> body]) is body with x naming the value of e: e is
\* computed once, however often body uses x.
With(f) == f[CHOOSE x \in DOMAIN f : TRUE]

\* ------------------------------------------------------------------------
\* Bit operations on naturals
\* ------------------------------------------------------------------------

RECURSIVE BitOr(_, _)
BitOr(a, b) ==
    IF a = 0 THEN b
    ELSE IF b = 0 THEN a
    ELSE (IF a % 2 = 1 \/ b % 2 = 1 THEN 1 ELSE 0) + 2 * BitOr(a \div 2, b \div 2)

RECURSIVE BitAnd(_, _)
BitAnd(a, b) ==
    IF a = 0 \/ b = 0 THEN 0
    ELSE (IF a % 2 = 1 /\ b % 2 = 1 THEN 1 ELSE 0) + 2 * BitAnd(a \div 2, b \div 2)

RECURSIVE BitXor(_, _)
BitXor(a, b) ==
    IF a = 0 THEN b
    ELSE IF b = 0 THEN a
    ELSE (IF (a % 2) # (b % 2) THEN 1 ELSE 0) + 2 * BitXor(a \div 2, b \div 2)

Pow2(n) == 2 ^ n

RECURSIVE PopCount(_)
PopCount(a) == IF a = 0 THEN 0 ELSE (a % 2) + PopCount(a \div 2)

\* ------------------------------------------------------------------------
\* Sequence helpers
\* ------------------------------------------------------------------------

Range(s) == {s[i] : i \in 1..Len(s)}

NoDuplicates(s) == \A i, j \in 1..Len(s) : i # j => s[i] # s[j]

\* Position of the first occurrence of x in s (0 if absent).
RECURSIVE IndexIn(_, _, _)
IndexIn(s, x, i) ==
    IF i > Len(s) THEN 0
    ELSE IF s[i] = x THEN i
    ELSE IndexIn(s, x, i + 1)

IndexOf(s, x) == IndexIn(s, x, 1)

RemoveAt(s, i) == SubSeq(s, 1, i - 1) \o SubSeq(s, i + 1, Len(s))

InsertAt(s, i, x) == SubSeq(s, 1, i - 1) \o <<x>> \o SubSeq(s, i, Len(s))

\* frg::intrusive_list::erase(iterator_to(x)): unlinks the node x.
listErase(s, x) ==
    With([i \in {IndexOf(s, x)} |->    IF i = 0 THEN s ELSE RemoveAt(s, i)])

\* Successor of node x in an intrusive list (Null is end()).
listNext(s, x) ==
    With([i \in {IndexOf(s, x)} |->
       IF i = 0 \/ i = Len(s) THEN Null ELSE s[i + 1]])

\* ------------------------------------------------------------------------
\* Bounds of the def-use model
\* ------------------------------------------------------------------------

NumValues == 3
MaxUses == 3

\* ------------------------------------------------------------------------
\* ir.cpp: ValueUse::assign and Value::replaceAllUses
\* ------------------------------------------------------------------------

\* The IR heap as one record, threaded through the operations.
IR == [vals |-> vals, uses |-> uses, insts |-> insts, blocks |-> blocks,
       branches |-> branches, phis |-> phis, edges |-> edges,
       rewrites |-> rewrites]

\* A Value (LocalValue, RegisterMode or BaseDispMemoryMode) with an empty use-list.
\* reg is modeRegister / baseRegister.
\* defBlock is history: the block whose instruction or phi produced the Value.
NewValue(kind, type, operandSize, disp, defBlock) ==
    [valueKind |-> kind, type |-> type, operandSize |-> operandSize,
     reg |-> None, disp |-> disp, useList |-> <<>>, defBlock |-> defBlock]

\* ValueUse::assign with the erase from the old use-list left out.
assignNoErase(ir, u, v) ==
    With([ir2 \in {IF v # Null
               THEN [ir EXCEPT !.vals[v].useList = Append(@, u)]
               ELSE ir} |->
       [ir2 EXCEPT !.uses[u].ref = v]])

\* void ValueUse::assign(Value *v)
assign(ir, u, v) ==
    With([r \in {ir.uses[u].ref} |->
        With([ir1 \in {IF r # Null
               THEN [ir EXCEPT !.vals[r].useList = listErase(@, u)]
               ELSE ir} |->
        With([ir2 \in {IF v # Null
               THEN [ir1 EXCEPT !.vals[v].useList = Append(@, u)]
               ELSE ir1} |->
       [ir2 EXCEPT !.uses[u].ref = v]])])])

\* The loop of Value::replaceAllUses; it is the iterator (a use, Null at end()).
RECURSIVE replaceAllUsesLoop(_, _, _, _)
replaceAllUsesLoop(ir, v, it, other) ==
    IF it = Null THEN ir
    ELSE With([use \in {it} |->
             With([nit \in {listNext(ir.vals[v].useList, it)} |->     \* ++it
            replaceAllUsesLoop(assign(ir, use, other), v, nit, other)])])

\* The loop with the iterator advanced only after the use was re-assigned:
\* the successor is then taken in the other Value's list.
RECURSIVE replaceAllUsesLateLoop(_, _, _, _)
replaceAllUsesLateLoop(ir, v, it, other) ==
    IF it = Null THEN ir
    ELSE With([ir1 \in {assign(ir, it, other)} |->
             With([nit \in {IF other = Null THEN Null
                    ELSE listNext(ir1.vals[other].useList, it)} |->
            replaceAllUsesLateLoop(ir1, v, nit, other)])])

replaceAllUsesLate(ir, v, other) ==
    With([l \in {ir.vals[v].useList} |->
       replaceAllUsesLateLoop(ir, v, IF l = <<>> THEN Null ELSE l[1], other)])

\* void Value::replaceAllUses(Value *other); asserts other != this.
replaceAllUses(ir, v, other) ==
    With([l \in {ir.vals[v].useList} |->
       replaceAllUsesLoop(ir, v, IF l = <<>> THEN Null ELSE l[1], other)])

\* ValueUse(Instruction *inst, Value *v): _ref{nullptr}, then assign(v).
\* ValueUse(Instruction *inst) is the case v = Null.
newValueUse(ir, inst, v) ==
    With([u \in {Len(ir.uses) + 1} |->
        With([ir1 \in {[ir EXCEPT !.uses = Append(@, [inst |-> inst, ref |-> Null])]} |->
       assign(ir1, u, v)])])

\* ------------------------------------------------------------------------
\* ir.hpp: instructions, basic blocks, phis, branches, data-flow edges
\* ------------------------------------------------------------------------

\* Instruction(kind): not yet in a block (_bb = nullptr), no results, no operands.
\* imm holds the kind's scalar member (value, offset, opcode, function,
\* operandRegister).
newInstruction(ir, kind, imm) ==
    [ir EXCEPT !.insts = Append(@, [kind |-> kind, bb |-> Null, results |-> <<>>,
                                    operands |-> <<>>, imm |-> imm])]

\* ValueOrigin::set / doSet on a fresh origin of instruction i: the origin owns v.
setResult(ir, i, value) ==
    With([ir1 \in {[ir EXCEPT !.vals = Append(@, value)]} |->
       [ir1 EXCEPT !.insts[i].results = Append(@, Len(ir1.vals))]])

\* A ValueUse member of instruction i, constructed with v.
addOperand(ir, i, v) ==
    With([ir1 \in {newValueUse(ir, i, v)} |->
       [ir1 EXCEPT !.insts[i].operands = Append(@, Len(ir1.uses))]])

\* size_t BasicBlock::indexOfInstruction(Instruction *inst): the size of the tree
\* for nullptr, the rank of inst otherwise (None for an instruction that is not
\* in the tree).
indexOfInstruction(ir, bb, inst) ==
    IF inst = Null THEN Len(ir.blocks[bb].insts)
    ELSE IndexOf(ir.blocks[bb].insts, inst) - 1

\* BasicBlock::doInsertInstruction(before, inst): before = Null appends.
insertInstruction(ir, bb, before, inst) ==
    With([l \in {ir.blocks[bb].insts} |->
        With([nl \in {IF before = Null THEN Append(l, inst)
              ELSE InsertAt(l, IndexOf(l, before), inst)} |->
       [ir EXCEPT !.insts[inst].bb = bb, !.blocks[bb].insts = nl]])])

\* BasicBlock::eraseInstruction(it)
eraseInstruction(ir, bb, inst) ==
    [ir EXCEPT !.blocks[bb].insts = listErase(@, inst)]

\* BasicBlock::replaceInstruction(from, to); the result iterator points to `to`.
replaceInstruction(ir, bb, from, to) ==
    With([l \in {ir.blocks[bb].insts} |->
        With([nl \in {listErase(InsertAt(l, IndexOf(l, from), to), from)} |->
       [ir EXCEPT !.insts[to].bb = bb, !.insts[from].bb = Null,
                  !.blocks[bb].insts = nl]])])

\* Function::addBlock(std::make_unique<BasicBlock>())
\* lowered, genericInsts and genericBranch are history: whether LowerCodePass ran
\* on the block, and the instructions and branch it found.
addBlock(ir) ==
    [ir EXCEPT !.blocks = Append(@, [phis |-> <<>>, insts |-> <<>>,
                                     branch |-> Null, edges |-> <<>>,
                                     lowered |-> FALSE, genericInsts |-> <<>>,
                                     genericBranch |-> Null])]

\* BasicBlock::attachPhi with the phi's value origin set to a new LocalValue.
attachPhi(ir, bb, phiKind, type) ==
    With([ir1 \in {[ir EXCEPT !.vals = Append(@, NewValue("local", type, "null", 0, bb))]} |->
        With([ir2 \in {[ir1 EXCEPT !.phis = Append(@, [phiKind |-> phiKind,
                                               value |-> Len(ir1.vals),
                                               sinkEdges |-> <<>>])]} |->
       [ir2 EXCEPT !.blocks[bb].phis = Append(@, Len(ir2.phis))]])])

\* DataFlowEdge::attach(edge, source, sink) followed by edge->alias = v.
\* The alias is a ValueUse without an instruction.
attachEdge(ir, sourceBlock, sinkPhi, v) ==
    With([ir1 \in {newValueUse(ir, Null, Null)} |->
        With([alias \in {Len(ir1.uses)} |->
        With([ir2 \in {[ir1 EXCEPT !.edges = Append(@, [alias |-> alias,
                                                source |-> sourceBlock,
                                                sink |-> sinkPhi])]} |->
        With([e \in {Len(ir2.edges)} |->
        With([ir3 \in {[ir2 EXCEPT !.blocks[sourceBlock].edges = Append(@, e),
                           !.phis[sinkPhi].sinkEdges = Append(@, e)]} |->
       assign(ir3, alias, v)])])])])])

\* A Branch with its operand uses (ValueUse{nullptr}) assigned from ops.
RECURSIVE addBranchOperands(_, _, _)
addBranchOperands(ir, br, ops) ==
    IF ops = <<>> THEN ir
    ELSE With([ir1 \in {newValueUse(ir, Null, Head(ops))} |->
            addBranchOperands(
                [ir1 EXCEPT !.branches[br].operands = Append(@, Len(ir1.uses))],
                br, Tail(ops))])

newBranch(ir, kind, ops, targets) ==
    With([ir1 \in {[ir EXCEPT !.branches = Append(@, [kind |-> kind, operands |-> <<>>,
                                                  targets |-> targets])]} |->
       addBranchOperands(ir1, Len(ir1.branches), ops)])

\* BasicBlock::setBranch(std::move(branch))
setBranch(ir, bb, br) == [ir EXCEPT !.blocks[bb].branch = br]

\* insertNewInstruction<K>(operands...) followed by result.setNew<LocalValue>()
\* and setType(type): a generic instruction at the end of block bb.
RECURSIVE addOperands(_, _, _)
addOperands(ir, i, ops) ==
    IF ops = <<>> THEN ir ELSE addOperands(addOperand(ir, i, Head(ops)), i, Tail(ops))

insertNewInstruction(ir, bb, kind, imm, ops, type) ==
    With([ir1 \in {newInstruction(ir, kind, imm)} |->
        With([i \in {Len(ir1.insts)} |->
        With([ir2 \in {addOperands(ir1, i, ops)} |->
        With([ir3 \in {insertInstruction(ir2, bb, Null, i)} |->
       setResult(ir3, i, NewValue("local", type, "null", 0, bb))])])])])

\* ------------------------------------------------------------------------
\* lower-code.cpp: LowerCodeImpl::run
\* ------------------------------------------------------------------------

\* The operand size the lowering picks for a Type.
operandSizeOf(type) ==
    IF type = "pointer" THEN "qword"
    ELSE IF type = "int32" THEN "dword"
    ELSE IF type = "int64" THEN "qword"
    ELSE "unexpected"

\* lambda lowerValue: a RegisterMode for a LocalValue.
lowerValue(ir, value) ==
    NewValue("registerMode", "none", operandSizeOf(ir.vals[value].type), 0,
             ir.vals[value].defBlock)

\* lambda lowerValueWithOffset: a BaseDispMemoryMode for a LocalValue.
lowerValueWithOffset(ir, value, offset) ==
    NewValue("baseDispMemoryMode", "none", operandSizeOf(ir.vals[value].type),
             offset, ir.vals[value].defBlock)

\* v->replaceAllUses(w), with the replacement noted in the history.
replaceAndRecord(ir, v, w) ==
    With([before \in {ir.vals[v].useList} |->
        With([ir1 \in {replaceAllUses(ir, v, w)} |->
       [ir1 EXCEPT !.rewrites = Append(@,
            [old |-> v, new |-> w, usesBefore |-> before,
             refsAfter |-> [k \in 1..Len(before) |-> ir1.uses[before[k]].ref],
             oldUsesAfter |-> ir1.vals[v].useList])]])])

\* The phi loop: each phi's value is replaced by a RegisterMode.
RECURSIVE lowerPhis(_, _, _)
lowerPhis(ir, bb, k) ==
    IF k > Len(ir.blocks[bb].phis) THEN ir
    ELSE With([phi \in {ir.blocks[bb].phis[k]} |->
             With([old \in {ir.phis[phi].value} |->
             With([ir1 \in {[ir EXCEPT !.vals = Append(@, lowerValue(ir, old))]} |->
             With([lowerPhi \in {Len(ir1.vals)} |->
             With([ir2 \in {replaceAndRecord(ir1, old, lowerPhi)} |->
            lowerPhis([ir2 EXCEPT !.phis[phi].value = lowerPhi], bb, k + 1)])])])])])

\* LoadConst -> MovMC
lowerLoadConst(ir, bb, it) ==
    With([loadConst \in {ir.insts[it]} |->
        With([ir1 \in {newInstruction(ir, "movMC", loadConst.imm)} |->
        With([lower \in {Len(ir1.insts)} |->
        With([ir2 \in {setResult(ir1, lower, lowerValue(ir1, loadConst.results[1]))} |->
        With([lowerResult \in {Len(ir2.vals)} |->
        With([ir3 \in {replaceAndRecord(ir2, loadConst.results[1], lowerResult)} |->
       [ir |-> replaceInstruction(ir3, bb, it, lower), it |-> lower]])])])])])])

\* The LoadOffset rewrite with the MovRM placed in front of the DefineOffset.
lowerLoadOffsetMovFirst(ir, bb, it) ==
    With([loadOffset \in {ir.insts[it]} |->
        With([ir1 \in {newInstruction(ir, "defineOffset", 0)} |->
        With([lowerOffset \in {Len(ir1.insts)} |->
        With([ir2 \in {addOperand(ir1, lowerOffset, ir1.uses[loadOffset.operands[1]].ref)} |->
        With([ir3 \in {setResult(ir2, lowerOffset,
                   lowerValueWithOffset(ir2, loadOffset.results[1], loadOffset.imm))} |->
        With([offsetValue \in {Len(ir3.vals)} |->
        With([ir4 \in {newInstruction(ir3, "movRM", 0)} |->
        With([lowerMov \in {Len(ir4.insts)} |->
        With([ir5 \in {addOperand(ir4, lowerMov, offsetValue)} |->
        With([ir6 \in {setResult(ir5, lowerMov, lowerValue(ir5, loadOffset.results[1]))} |->
        With([resultValue \in {Len(ir6.vals)} |->
        With([ir7 \in {replaceAndRecord(ir6, loadOffset.results[1], resultValue)} |->
        With([ir8 \in {assign(ir7, loadOffset.operands[1], Null)} |->
        With([ir9 \in {replaceInstruction(ir8, bb, it, lowerOffset)} |->
        With([ir10 \in {insertInstruction(ir9, bb, lowerOffset, lowerMov)} |->
       [ir |-> ir10, it |-> lowerOffset]])])])])])])])])])])])])])])])

\* LoadOffset -> DefineOffset; MovRM
lowerLoadOffset(ir, bb, it) ==
    With([loadOffset \in {ir.insts[it]} |->
        With([ir1 \in {newInstruction(ir, "defineOffset", 0)} |->
        With([lowerOffset \in {Len(ir1.insts)} |->
        With([ir2 \in {addOperand(ir1, lowerOffset, ir1.uses[loadOffset.operands[1]].ref)} |->
        With([ir3 \in {setResult(ir2, lowerOffset,
                   lowerValueWithOffset(ir2, loadOffset.results[1], loadOffset.imm))} |->
        With([offsetValue \in {Len(ir3.vals)} |->
        With([ir4 \in {newInstruction(ir3, "movRM", 0)} |->
        With([lowerMov \in {Len(ir4.insts)} |->
        With([ir5 \in {addOperand(ir4, lowerMov, offsetValue)} |->
        With([ir6 \in {setResult(ir5, lowerMov, lowerValue(ir5, loadOffset.results[1]))} |->
        With([resultValue \in {Len(ir6.vals)} |->
        With([ir7 \in {replaceAndRecord(ir6, loadOffset.results[1], resultValue)} |->
        With([ir8 \in {assign(ir7, loadOffset.operands[1], Null)} |->
        With([ir9 \in {replaceInstruction(ir8, bb, it, lowerOffset)} |->
        With([nit \in {listNext(ir9.blocks[bb].insts, lowerOffset)} |->
        With([ir10 \in {insertInstruction(ir9, bb, nit, lowerMov)} |->
       [ir |-> ir10, it |-> listNext(ir10.blocks[bb].insts, lowerOffset)]])])])])])])])])])])])])])])])])

\* UnaryMath{negate} -> NegM
lowerUnaryMath(ir, bb, it) ==
    With([unaryMath \in {ir.insts[it]} |->
        With([ir1 \in {addOperand(newInstruction(ir, "negM", 0), Len(ir.insts) + 1, Null)} |->
        With([lower \in {Len(ir1.insts)} |->
        With([ir2 \in {setResult(ir1, lower, lowerValue(ir1, unaryMath.results[1]))} |->
        With([lowerResult \in {Len(ir2.vals)} |->
        With([ir3 \in {assign(ir2, ir2.insts[lower].operands[1],
                      ir2.uses[unaryMath.operands[1]].ref)} |->
        With([ir4 \in {replaceAndRecord(ir3, unaryMath.results[1], lowerResult)} |->
        With([ir5 \in {assign(ir4, unaryMath.operands[1], Null)} |->
       [ir |-> replaceInstruction(ir5, bb, it, lower), it |-> lower]])])])])])])])])

\* The BinaryMath rewrite without the replaceAllUses of the result.
lowerBinaryMathKeepUses(ir, bb, it) ==
    With([binaryMath \in {ir.insts[it]} |->
        With([kind \in {IF binaryMath.imm = "add" THEN "addMR" ELSE "andMR"} |->
        With([ir0 \in {newInstruction(ir, kind, 0)} |->
        With([lower \in {Len(ir0.insts)} |->
        With([ir1 \in {addOperand(addOperand(ir0, lower, Null), lower, Null)} |->
        With([ir2 \in {setResult(ir1, lower, lowerValue(ir1, binaryMath.results[1]))} |->
        With([ir3 \in {assign(ir2, ir2.insts[lower].operands[1],
                      ir2.uses[binaryMath.operands[1]].ref)} |->
        With([ir4 \in {assign(ir3, ir3.insts[lower].operands[2],
                      ir3.uses[binaryMath.operands[2]].ref)} |->
        With([ir6 \in {assign(ir4, binaryMath.operands[1], Null)} |->
        With([ir7 \in {assign(ir6, binaryMath.operands[2], Null)} |->
       [ir |-> replaceInstruction(ir7, bb, it, lower), it |-> lower]])])])])])])])])])])

\* BinaryMath{add | bitwiseAnd} -> AddMR | AndMR
lowerBinaryMath(ir, bb, it) ==
    With([binaryMath \in {ir.insts[it]} |->
        With([kind \in {IF binaryMath.imm = "add" THEN "addMR" ELSE "andMR"} |->
        With([ir0 \in {newInstruction(ir, kind, 0)} |->
        With([lower \in {Len(ir0.insts)} |->
        With([ir1 \in {addOperand(addOperand(ir0, lower, Null), lower, Null)} |->
        With([ir2 \in {setResult(ir1, lower, lowerValue(ir1, binaryMath.results[1]))} |->
        With([lowerResult \in {Len(ir2.vals)} |->
        With([ir3 \in {assign(ir2, ir2.insts[lower].operands[1],
                      ir2.uses[binaryMath.operands[1]].ref)} |->
        With([ir4 \in {assign(ir3, ir3.insts[lower].operands[2],
                      ir3.uses[binaryMath.operands[2]].ref)} |->
        With([ir5 \in {replaceAndRecord(ir4, binaryMath.results[1], lowerResult)} |->
        With([ir6 \in {assign(ir5, binaryMath.operands[1], Null)} |->
        With([ir7 \in {assign(ir6, binaryMath.operands[2], Null)} |->
       [ir |-> replaceInstruction(ir7, bb, it, lower), it |-> lower]])])])])])])])])])])])])

\* The operand loop of the Invoke and FunctionReturn rewrites:
\* lower->operand(i) = old->operand(i).get(); old->operand(i) = nullptr.
RECURSIVE moveOperands(_, _, _, _)
moveOperands(ir, from, to, k) ==
    IF k > Len(from) THEN ir
    ELSE With([ir1 \in {assign(ir, to[k], ir.uses[from[k]].ref)} |->
            moveOperands(assign(ir1, from[k], Null), from, to, k + 1)])

RECURSIVE addNullOperands(_, _, _)
addNullOperands(ir, i, n) ==
    IF n = 0 THEN ir ELSE addNullOperands(addOperand(ir, i, Null), i, n - 1)

\* Invoke -> Call
lowerInvoke(ir, bb, it) ==
    With([invoke \in {ir.insts[it]} |->
        With([ir0 \in {newInstruction(ir, "call", invoke.imm)} |->
        With([lower \in {Len(ir0.insts)} |->
        With([ir1 \in {addNullOperands(ir0, lower, Len(invoke.operands))} |->
        With([ir2 \in {setResult(ir1, lower, lowerValue(ir1, invoke.results[1]))} |->
        With([lowerResult \in {Len(ir2.vals)} |->
        With([ir3 \in {replaceAndRecord(ir2, invoke.results[1], lowerResult)} |->
        With([ir4 \in {moveOperands(ir3, invoke.operands, ir3.insts[lower].operands, 1)} |->
       [ir |-> replaceInstruction(ir4, bb, it, lower), it |-> lower]])])])])])])])])

\* The instruction loop of run(): it is the iterator, ++it is taken on the block
\* as it is after the rewrite.
RECURSIVE lowerInstructions(_, _, _)
lowerInstructions(ir, bb, it) ==
    IF it = Null THEN ir
    ELSE With([k \in {ir.insts[it].kind} |->
             With([r \in {CASE k = "loadConst" -> lowerLoadConst(ir, bb, it)
                    [] k = "loadOffset" -> lowerLoadOffset(ir, bb, it)
                    [] k = "unaryMath" -> lowerUnaryMath(ir, bb, it)
                    [] k = "binaryMath" -> lowerBinaryMath(ir, bb, it)
                    [] k = "invoke" -> lowerInvoke(ir, bb, it)} |->
            lowerInstructions(r.ir, bb, listNext(r.ir.blocks[bb].insts, r.it))])])

\* The branch rewrite at the end of run().
lowerBranch(ir, bb) ==
    With([br \in {ir.blocks[bb].branch} |->
        With([branch \in {ir.branches[br]} |->
        With([kind \in {CASE branch.kind = "functionReturn" -> "ret"
                  [] branch.kind = "unconditional" -> "jmp"
                  [] branch.kind = "conditional" -> "jnz"} |->
        With([ir1 \in {newBranch(ir, kind, [k \in 1..Len(branch.operands) |-> Null],
                         branch.targets)} |->
        With([lower \in {Len(ir1.branches)} |->
        With([ir2 \in {moveOperands(ir1, branch.operands, ir1.branches[lower].operands, 1)} |->
       setBranch(ir2, bb, lower)])])])])])])

\* void LowerCodeImpl::run()
LowerCodeRun(ir, bb) ==
    With([ir0 \in {[ir EXCEPT !.blocks[bb].lowered = TRUE,
                          !.blocks[bb].genericInsts = ir.blocks[bb].insts,
                          !.blocks[bb].genericBranch = ir.blocks[bb].branch]} |->
        With([ir1 \in {lowerPhis(ir0, bb, 1)} |->
        With([l \in {ir1.blocks[bb].insts} |->
        With([ir2 \in {lowerInstructions(ir1, bb, IF l = <<>> THEN Null ELSE l[1])} |->
       lowerBranch(ir2, bb)])])])])

\* ------------------------------------------------------------------------
\* alloc-regs.cpp: AllocateRegistersImpl
\* ------------------------------------------------------------------------

gprMask == 65519                \* 0xFFEF: every GPR except RSP
callerRegs == 61480             \* 0xF028
operandRegs == <<128, 64, 4, 2, 256, 512>>
resultRegs == <<1>>
clobberRegs == <<1024, 2048>>

HasBit(mask, i) == (mask \div Pow2(i)) % 2 = 1

\* enum SubBlock, enum SubInstruction
beforeBlock == -1
inBlock == 0
afterBlock == 1
beforeInstruction == -1
atInstruction == 0
afterInstruction == 1

ProgramCounter(block, subBlock, instruction, subInstruction) ==
    [block |-> block, subBlock |-> subBlock, instruction |-> instruction,
     subInstruction |-> subInstruction]

\* A default-constructed ProgramCounter
DefaultPc == ProgramCounter(Null, inBlock, Null, atInstruction)

\* ProgramCounter::operator<; blocks compare by their position in the function.
pcLess(ir, a, b) ==
    IF a.block # b.block THEN a.block < b.block
    ELSE IF a.subBlock # b.subBlock THEN a.subBlock < b.subBlock
    ELSE IF /\ a.instruction # b.instruction
            /\ indexOfInstruction(ir, a.block, a.instruction)
                 # indexOfInstruction(ir, a.block, b.instruction)
         THEN indexOfInstruction(ir, a.block, a.instruction)
                 < indexOfInstruction(ir, a.block, b.instruction)
         ELSE a.subInstruction < b.subInstruction

\* ProgramCounter::operator<=
pcLessEq(ir, a, b) == pcLess(ir, a, b) \/ a = b

\* The members of a new AllocateRegistersImpl.  fail notes how run() ended early:
\* "infeasible" for the exception of _allocateCompound, "assert" for a failed
\* assertion.
RaEmpty ==
    [intervals |-> <<>>, compounds |-> <<>>, phiCompounds |-> <<>>,
     restrictedQueue |-> <<>>, unrestrictedQueue |-> <<>>, penalties |-> <<>>,
     allocated |-> <<>>, usedRegisters |-> 0, achievedCost |-> 0,
     numRegisterMoves |-> 0, fail |-> "none"]

\* cloneModeValue(value): a RegisterMode of the same operand size
cloneModeValue(ir, value) ==
    NewValue("registerMode", "none", ir.vals[value].operandSize, 0,
             ir.vals[value].defBlock)

\* setRegister(v, registerIdx): modeRegister or baseRegister
setRegister(ir, v, registerIdx) == [ir EXCEPT !.vals[v].reg = registerIdx]

\* new LiveCompound, with possibleRegisters set
newCompound(ra, possibleRegisters) ==
    [ra EXCEPT !.compounds = Append(@, [intervals |-> <<>>,
                                        allocatedRegister |-> -1,
                                        possibleRegisters |-> possibleRegisters])]

\* new LiveInterval pushed to compound->intervals; eq = Null keeps the
\* constructor's equivalencePointer{this}.
newInterval(ra, compound, value, eq, originPc, finalPc) ==
    With([n \in {Len(ra.intervals) + 1} |->
       [ra EXCEPT !.intervals = Append(@, [associatedValue |-> value,
                                           compound |-> compound,
                                           equivalencePointer |->
                                               IF eq = Null THEN n ELSE eq,
                                           originPc |-> originPc,
                                           finalPc |-> finalPc]),
                  !.compounds[compound].intervals = Append(@, n)]])

\* std::unordered_map<Value *, LiveInterval *>: insert keeps an existing entry.
mapHas(m, key) == \E k \in 1..Len(m) : m[k].key = key
mapInsert(m, key, val) ==
    IF mapHas(m, key) THEN m ELSE Append(m, [key |-> key, val |-> val])
mapAt(m, key) == m[CHOOSE k \in 1..Len(m) : m[k].key = key].val
mapErase(m, key) == SelectSeq(m, LAMBDA e : e.key # key)

\* ValueOrigin::set on the k-th result origin of instruction i
setResultAt(ir, i, k, value) ==
    With([ir1 \in {[ir EXCEPT !.vals = Append(@, value)]} |->
       [ir1 EXCEPT !.insts[i].results[k] = Len(ir1.vals)]])

\* std::make_unique<PseudoMoveSingleInstruction>(operand), inserted before `before`
insertPseudoMoveSingle(ir, bb, before, operand) ==
    With([ir1 \in {newInstruction(ir, "pseudoMoveSingle", 0)} |->
        With([pseudoMove \in {Len(ir1.insts)} |->
        With([ir2 \in {addOperand(ir1, pseudoMove, operand)} |->
       insertInstruction(ir2, bb, before, pseudoMove)])])])

\* std::make_unique<PseudoMoveMultipleInstruction>(arity), inserted before `before`
insertPseudoMoveMultiple(ir, bb, before, arity) ==
    With([ir1 \in {newInstruction(ir, "pseudoMoveMultiple", 0)} |->
        With([pseudoMove \in {Len(ir1.insts)} |->
        With([ir2 \in {addNullOperands(ir1, pseudoMove, arity)} |->
        With([ir3 \in {[ir2 EXCEPT !.insts[pseudoMove].results = [k \in 1..arity |-> Null]]} |->
       insertInstruction(ir3, bb, before, pseudoMove)])])])])

\* _determineFinalPc(bb, v).  ok is FALSE when assert(use->instruction()) fails;
\* has is FALSE for std::nullopt.
\* A final PC at the first use in the use-list
determineFinalPcFirstUse(ir, bb, v) ==
    With([l \in {ir.vals[v].useList} |->
       [ok |-> \A k \in 1..Len(l) : ir.uses[l[k]].inst # Null,
        has |-> l # <<>>,
        pc |-> ProgramCounter(bb, inBlock,
                              IF l = <<>> THEN Null ELSE ir.uses[l[1]].inst,
                              beforeInstruction)]])

RECURSIVE determineFinalLoop(_, _, _, _, _)
determineFinalLoop(ir, bb, l, k, finalInst) ==
    IF k > Len(l) THEN [ok |-> TRUE, inst |-> finalInst]
    ELSE With([useInst \in {ir.uses[l[k]].inst} |->
            IF useInst = Null THEN [ok |-> FALSE, inst |-> Null]
            ELSE IF finalInst = Null
                    \/ indexOfInstruction(ir, bb, useInst)
                         > indexOfInstruction(ir, bb, finalInst)
            THEN determineFinalLoop(ir, bb, l, k + 1, useInst)
            ELSE determineFinalLoop(ir, bb, l, k + 1, finalInst)])

determineFinalPc(ir, bb, v) ==
    With([r \in {determineFinalLoop(ir, bb, ir.vals[v].useList, 1, Null)} |->
       [ok |-> r.ok, has |-> r.inst # Null,
        pc |-> ProgramCounter(bb, inBlock, r.inst, beforeInstruction)]])

\* ---- _collectBlockIntervals ----
\* The working state w of one call: the IR, the allocator's members, and the
\* locals collected and intervalMap.

\* The phi loop: a PseudoMoveSingle per phi, in front of the block's instructions.
RECURSIVE collectPhis(_, _, _, _)
collectPhis(w, bb, instructionsBegin, k) ==
    IF k > Len(w.ir.blocks[bb].phis) THEN w
    ELSE
    With([phi \in {w.ir.blocks[bb].phis[k]} |->
        With([phiValue \in {w.ir.phis[phi].value} |->
        With([ir1 \in {insertPseudoMoveSingle(w.ir, bb, instructionsBegin, Null)} |->
        With([pseudoMove \in {Len(ir1.insts)} |->
        With([ir2 \in {setResult(ir1, pseudoMove, cloneModeValue(ir1, phiValue))} |->
        With([pseudoMoveResult \in {Len(ir2.vals)} |->
        With([ir3 \in {replaceAllUses(ir2, phiValue, pseudoMoveResult)} |->
        With([ir4 \in {assign(ir3, ir3.insts[pseudoMove].operands[1], phiValue)} |->
        With([nodeCompound \in {w.ra.phiCompounds[phi]} |->
        With([ra1 \in {[w.ra EXCEPT !.compounds[nodeCompound].possibleRegisters =
                   IF w.ir.phis[phi].phiKind = "argument" THEN 128 ELSE gprMask]} |->
        With([ra2 \in {newInterval(ra1, nodeCompound, phiValue, Null,
                   ProgramCounter(bb, beforeBlock, Null, afterInstruction),
                   ProgramCounter(bb, inBlock, pseudoMove, beforeInstruction))} |->
        With([ra3 \in {newCompound(ra2, gprMask)} |->
        With([copyCompound \in {Len(ra3.compounds)} |->
        With([ra4 \in {newInterval(ra3, copyCompound, pseudoMoveResult, Null,
                   ProgramCounter(bb, inBlock, pseudoMove, afterInstruction),
                   DefaultPc)} |->
        With([copyInterval \in {Len(ra4.intervals)} |->
        With([ra5 \in {[ra4 EXCEPT !.unrestrictedQueue = Append(@, nodeCompound),
                           !.penalties = Append(@, <<nodeCompound, copyCompound>>)]} |->
       collectPhis([ir |-> ir4, ra |-> ra5, it |-> w.it,
                    collected |-> Append(w.collected, copyCompound),
                    intervalMap |-> mapInsert(w.intervalMap, pseudoMoveResult,
                                              copyInterval)],
                   bb, instructionsBegin, k + 1)])])])])])])])])])])])])])])])])

\* DefineOffsetInstruction
collectDefineOffset(w, bb, cit) ==
    With([defineOffset \in {w.ir.insts[cit]} |->
        With([originalOperand \in {w.ir.uses[defineOffset.operands[1]].ref} |->
        With([ir1 \in {insertPseudoMoveSingle(w.ir, bb, cit, originalOperand)} |->
        With([pseudoMove \in {Len(ir1.insts)} |->
        With([ir2 \in {setResult(ir1, pseudoMove, cloneModeValue(ir1, originalOperand))} |->
        With([pseudoMoveResult \in {Len(ir2.vals)} |->
        With([ir3 \in {assign(ir2, defineOffset.operands[1], pseudoMoveResult)} |->
        With([ra1 \in {newCompound(w.ra, gprMask)} |->
        With([compound \in {Len(ra1.compounds)} |->
        With([operandInterval \in {mapAt(w.intervalMap, originalOperand)} |->
        With([eq \in {ra1.intervals[operandInterval].equivalencePointer} |->
        With([ra2 \in {newInterval(ra1, compound, pseudoMoveResult, eq,
                   ProgramCounter(bb, inBlock, pseudoMove, afterInstruction),
                   DefaultPc)} |->
        With([ra3 \in {newInterval(ra2, compound, defineOffset.results[1], eq,
                   ProgramCounter(bb, inBlock, cit, afterInstruction), DefaultPc)} |->
        With([resultInterval \in {Len(ra3.intervals)} |->
        With([ra4 \in {[ra3 EXCEPT !.penalties =
                   Append(@, <<ra3.intervals[operandInterval].compound, compound>>)]} |->
       [ir |-> ir3, ra |-> ra4, it |-> w.it,
        collected |-> Append(w.collected, compound),
        intervalMap |-> mapInsert(w.intervalMap, defineOffset.results[1],
                                  resultInterval)]])])])])])])])])])])])])])])])

\* MovMCInstruction and UnaryMOverwriteInstruction (MovRM): one result interval
collectOverwrite(w, bb, cit) ==
    With([ra1 \in {newCompound(w.ra, gprMask)} |->
        With([compound \in {Len(ra1.compounds)} |->
        With([ra2 \in {newInterval(ra1, compound, w.ir.insts[cit].results[1], Null,
                   ProgramCounter(bb, inBlock, cit, afterInstruction), DefaultPc)} |->
       [ir |-> w.ir, ra |-> ra2, it |-> w.it,
        collected |-> Append(w.collected, compound),
        intervalMap |-> mapInsert(w.intervalMap, w.ir.insts[cit].results[1],
                                  Len(ra2.intervals))]])])])

\* UnaryMInPlaceInstruction and BinaryMRInPlaceInstruction: the primary operand
\* is copied by a PseudoMoveSingle; copy and result share one compound.
collectInPlace(w, bb, cit) ==
    With([inPlace \in {w.ir.insts[cit]} |->
        With([originalPrimary \in {w.ir.uses[inPlace.operands[1]].ref} |->
        With([ir1 \in {insertPseudoMoveSingle(w.ir, bb, cit, originalPrimary)} |->
        With([pseudoMove \in {Len(ir1.insts)} |->
        With([ir2 \in {setResult(ir1, pseudoMove, cloneModeValue(ir1, originalPrimary))} |->
        With([pseudoMoveResult \in {Len(ir2.vals)} |->
        With([ir3 \in {assign(ir2, inPlace.operands[1], pseudoMoveResult)} |->
        With([ra1 \in {newCompound(w.ra, gprMask)} |->
        With([compound \in {Len(ra1.compounds)} |->
        With([ra2 \in {newInterval(ra1, compound, pseudoMoveResult, Null,
                   ProgramCounter(bb, inBlock, pseudoMove, afterInstruction),
                   DefaultPc)} |->
        With([ra3 \in {newInterval(ra2, compound, inPlace.results[1], Null,
                   ProgramCounter(bb, inBlock, cit, afterInstruction), DefaultPc)} |->
        With([resultInterval \in {Len(ra3.intervals)} |->
        With([ra4 \in {[ra3 EXCEPT !.penalties = Append(@,
                   <<ra3.intervals[mapAt(w.intervalMap, originalPrimary)].compound,
                     compound>>)]} |->
       [ir |-> ir3, ra |-> ra4, it |-> w.it,
        collected |-> Append(w.collected, compound),
        intervalMap |-> mapInsert(w.intervalMap, inPlace.results[1],
                                  resultInterval)]])])])])])])])])])])])])])

\* The operand loop of a PseudoMoveMultiple whose copies are pinned to regs
\* (call operands, Ret operands): operand(i) moves to the pseudo-move, the user
\* takes the copy, the copy's compound is restricted to regs[i] and lives until
\* finalPc.
RECURSIVE collectPinnedCopies(_, _, _, _, _, _, _)
collectPinnedCopies(w, bb, pseudoMove, userOperands, regs, finalPc, k) ==
    IF k > Len(userOperands) THEN w
    ELSE
    With([originalOperand \in {w.ir.uses[userOperands[k]].ref} |->
        With([ir1 \in {assign(w.ir, w.ir.insts[pseudoMove].operands[k], originalOperand)} |->
        With([ir2 \in {setResultAt(ir1, pseudoMove, k, cloneModeValue(ir1, originalOperand))} |->
        With([pseudoMoveResult \in {Len(ir2.vals)} |->
        With([ir3 \in {assign(ir2, userOperands[k], pseudoMoveResult)} |->
        With([ra1 \in {newCompound(w.ra, regs[k])} |->
        With([copyCompound \in {Len(ra1.compounds)} |->
        With([ra2 \in {newInterval(ra1, copyCompound, pseudoMoveResult, Null,
                   ProgramCounter(bb, inBlock, pseudoMove, afterInstruction),
                   finalPc)} |->
        With([ra3 \in {[ra2 EXCEPT !.restrictedQueue = Append(@, copyCompound),
                           !.penalties = Append(@,
                   <<ra2.intervals[mapAt(w.intervalMap, originalOperand)].compound,
                     copyCompound>>)]} |->
       collectPinnedCopies([w EXCEPT !.ir = ir3, !.ra = ra3], bb, pseudoMove,
                           userOperands, regs, finalPc, k + 1)])])])])])])])])])

\* A call that clobbers nothing
collectNoClobbers(ra, bb, cit, regs, k) == ra

\* Clobber intervals at the call for regs[k..]
RECURSIVE collectClobbers(_, _, _, _, _)
collectClobbers(ra, bb, cit, regs, k) ==
    IF k > Len(regs) THEN ra
    ELSE With([ra1 \in {newCompound(ra, regs[k])} |->
             With([clobberCompound \in {Len(ra1.compounds)} |->
             With([ra2 \in {newInterval(ra1, clobberCompound, Null, Null,
                        ProgramCounter(bb, inBlock, cit, atInstruction),
                        ProgramCounter(bb, inBlock, cit, atInstruction))} |->
            collectClobbers([ra2 EXCEPT !.restrictedQueue =
                                 Append(@, clobberCompound)],
                            bb, cit, regs, k + 1)])])])

\* The result loop of a call: w.it is the loop iterator, stepped over the
\* PseudoMoveSingle placed behind the call.
RECURSIVE collectCallResults(_, _, _, _)
collectCallResults(w, bb, cit, k) ==
    IF k > Len(w.ir.insts[cit].results) THEN w
    ELSE
    With([callResult \in {w.ir.insts[cit].results[k]} |->
        With([nit \in {listNext(w.ir.blocks[bb].insts, w.it)} |->
        With([ir1 \in {insertPseudoMoveSingle(w.ir, bb, nit, Null)} |->
        With([pseudoMoveRetval \in {Len(ir1.insts)} |->
        With([ir2 \in {setResult(ir1, pseudoMoveRetval, cloneModeValue(ir1, callResult))} |->
        With([pseudoMoveRetvalResult \in {Len(ir2.vals)} |->
        With([ir3 \in {replaceAllUses(ir2, callResult, pseudoMoveRetvalResult)} |->
        With([ir4 \in {assign(ir3, ir3.insts[pseudoMoveRetval].operands[1], callResult)} |->
        With([ra1 \in {newCompound(w.ra, 1)} |->
        With([resultCompound \in {Len(ra1.compounds)} |->
        With([ra2 \in {newInterval(ra1, resultCompound, callResult, Null,
                   ProgramCounter(bb, inBlock, cit, afterInstruction),
                   ProgramCounter(bb, inBlock, pseudoMoveRetval, beforeInstruction))} |->
        With([ra3 \in {newCompound(ra2, gprMask)} |->
        With([retvalCopyCompound \in {Len(ra3.compounds)} |->
        With([ra4 \in {newInterval(ra3, retvalCopyCompound, pseudoMoveRetvalResult, Null,
                   ProgramCounter(bb, inBlock, pseudoMoveRetval, afterInstruction),
                   DefaultPc)} |->
        With([ra5 \in {[ra4 EXCEPT !.restrictedQueue = Append(@, resultCompound),
                           !.penalties = Append(@,
                                <<resultCompound, retvalCopyCompound>>)]} |->
       collectCallResults(
           [ir |-> ir4, ra |-> ra5,
            collected |-> Append(w.collected, retvalCopyCompound),
            intervalMap |-> mapInsert(w.intervalMap, pseudoMoveRetvalResult,
                                      Len(ra4.intervals)),
            it |-> listNext(ir4.blocks[bb].insts, w.it)],
           bb, cit, k + 1)])])])])])])])])])])])])])])])

\* CallInstruction
collectCall(w, bb, cit) ==
    With([call \in {w.ir.insts[cit]} |->
        With([ir1 \in {insertPseudoMoveMultiple(w.ir, bb, cit, Len(call.operands))} |->
        With([pseudoMove \in {Len(ir1.insts)} |->
        With([w1 \in {collectPinnedCopies([w EXCEPT !.ir = ir1], bb, pseudoMove,
                  call.operands, operandRegs,
                  ProgramCounter(bb, inBlock, cit, beforeInstruction), 1)} |->
        With([ra2 \in {collectClobbers(w1.ra, bb, cit, operandRegs, Len(call.operands) + 1)} |->
        With([w3 \in {collectCallResults([w1 EXCEPT !.ra = ra2, !.it = cit], bb, cit, 1)} |->
        With([ra4 \in {collectClobbers(w3.ra, bb, cit, resultRegs, Len(call.results) + 1)} |->
        With([ra5 \in {collectClobbers(ra4, bb, cit, clobberRegs, 1)} |->
       [w3 EXCEPT !.ra = ra5]])])])])])])])])

\* The instruction loop, from the first instruction the block had on entry;
\* w.it is the loop iterator.
RECURSIVE collectInstructions(_, _, _)
collectInstructions(w, bb, it) ==
    IF it = Null THEN w
    ELSE With([k \in {w.ir.insts[it].kind} |->
             With([w0 \in {[w EXCEPT !.it = it]} |->
             With([w1 \in {CASE k = "defineOffset" -> collectDefineOffset(w0, bb, it)
                     [] k \in {"movMC", "movRM", "movMR", "pseudoMoveSingle"} ->
                            collectOverwrite(w0, bb, it)
                     [] k \in {"negM", "addMR", "andMR"} -> collectInPlace(w0, bb, it)
                     [] k = "call" -> collectCall(w0, bb, it)} |->
            collectInstructions(w1, bb, listNext(w1.ir.blocks[bb].insts, w1.it))])])])

\* The PseudoMoveMultiple for the data-flow edges that leave the block: every
\* edge's alias is copied; the copy's interval joins the compound of the sink phi.
RECURSIVE collectEdges(_, _, _, _)
collectEdges(w, bb, pseudoMove, k) ==
    IF k > Len(w.ir.blocks[bb].edges) THEN w
    ELSE
    With([edge \in {w.ir.edges[w.ir.blocks[bb].edges[k]]} |->
        With([originalAlias \in {w.ir.uses[edge.alias].ref} |->
        With([ir1 \in {assign(w.ir, w.ir.insts[pseudoMove].operands[k], originalAlias)} |->
        With([ir2 \in {setResultAt(ir1, pseudoMove, k, cloneModeValue(ir1, originalAlias))} |->
        With([pseudoMoveResult \in {Len(ir2.vals)} |->
        With([ir3 \in {assign(ir2, edge.alias, pseudoMoveResult)} |->
        With([nodeCompound \in {w.ra.phiCompounds[edge.sink]} |->
        With([ra1 \in {newInterval(w.ra, nodeCompound, pseudoMoveResult, Null,
                   ProgramCounter(bb, inBlock, pseudoMove, afterInstruction),
                   ProgramCounter(bb, afterBlock, Null, afterInstruction))} |->
        With([ra2 \in {[ra1 EXCEPT !.penalties = Append(@,
                   <<ra1.intervals[mapAt(w.intervalMap, originalAlias)].compound,
                     nodeCompound>>)]} |->
       collectEdges([w EXCEPT !.ir = ir3, !.ra = ra2], bb, pseudoMove, k + 1)])])])])])])])])])

\* The pseudo-move in front of a Ret or Jnz branch
collectBranch(w, bb) ==
    With([branch \in {w.ir.branches[w.ir.blocks[bb].branch]} |->
       IF branch.kind = "ret"
       THEN With([ir1 \in {insertPseudoMoveMultiple(w.ir, bb, Null, Len(branch.operands))} |->
               collectPinnedCopies([w EXCEPT !.ir = ir1], bb, Len(ir1.insts),
                   branch.operands, resultRegs,
                   ProgramCounter(bb, afterBlock, Null, afterInstruction), 1)])
       ELSE IF branch.kind = "jnz"
       THEN With([originalOperand \in {w.ir.uses[branch.operands[1]].ref} |->
                With([ir1 \in {insertPseudoMoveSingle(w.ir, bb, Null, Null)} |->
                With([pseudoMove \in {Len(ir1.insts)} |->
                With([ir2 \in {assign(ir1, ir1.insts[pseudoMove].operands[1], originalOperand)} |->
                With([ir3 \in {setResult(ir2, pseudoMove, cloneModeValue(ir2, originalOperand))} |->
                With([pseudoMoveResult \in {Len(ir3.vals)} |->
                With([ir4 \in {assign(ir3, branch.operands[1], pseudoMoveResult)} |->
                With([ra1 \in {newCompound(w.ra, gprMask)} |->
                With([copyCompound \in {Len(ra1.compounds)} |->
                With([ra2 \in {newInterval(ra1, copyCompound, pseudoMoveResult, Null,
                           ProgramCounter(bb, inBlock, pseudoMove, afterInstruction),
                           ProgramCounter(bb, afterBlock, Null, afterInstruction))} |->
                With([ra3 \in {[ra2 EXCEPT !.unrestrictedQueue = Append(@, copyCompound),
                                   !.penalties = Append(@,
                   <<ra2.intervals[mapAt(w.intervalMap, originalOperand)].compound,
                     copyCompound>>)]} |->
               [w EXCEPT !.ir = ir4, !.ra = ra3]])])])])])])])])])])])
       ELSE w])

\* The final PC of every interval of a collected compound
RECURSIVE postProcessIntervals(_, _, _, _, _)
postProcessIntervals(ir, ra, bb, l, k) ==
    IF k > Len(l) \/ ra.fail # "none" THEN ra
    ELSE With([interval \in {ra.intervals[l[k]]} |->
             With([maybeFinalPc \in {determineFinalPc(ir, bb, interval.associatedValue)} |->
             With([ra1 \in {IF ~maybeFinalPc.ok THEN [ra EXCEPT !.fail = "assert"]
                    ELSE [ra EXCEPT !.intervals[l[k]].finalPc =
                             IF maybeFinalPc.has THEN maybeFinalPc.pc
                             ELSE interval.originPc]} |->
            postProcessIntervals(ir, ra1, bb, l, k + 1)])])])

\* Post-processing: final PCs, then the collected compounds join the
\* unrestricted queue.
RECURSIVE postProcess(_, _, _, _, _)
postProcess(ir, ra, bb, collected, k) ==
    IF k > Len(collected) \/ ra.fail # "none" THEN ra
    ELSE With([compound \in {collected[k]} |->
             With([ra1 \in {postProcessIntervals(ir, ra, bb,
                        ra.compounds[compound].intervals, 1)} |->
             With([ra2 \in {IF PopCount(ra1.compounds[compound].possibleRegisters) > 1
                    THEN [ra1 EXCEPT !.unrestrictedQueue = Append(@, compound)]
                    ELSE [ra1 EXCEPT !.fail = "assert"]} |->
            postProcess(ir, IF ra1.fail # "none" THEN ra1 ELSE ra2, bb,
                        collected, k + 1)])])])

\* void AllocateRegistersImpl::_collectBlockIntervals(BasicBlock *bb)
collectBlockIntervals(ir, ra, bb) ==
    With([l \in {ir.blocks[bb].insts} |->
        With([instructionsBegin \in {IF l = <<>> THEN Null ELSE l[1]} |->
        With([w0 \in {[ir |-> ir, ra |-> ra, collected |-> <<>>, intervalMap |-> <<>>,
               it |-> Null]} |->
        With([w1 \in {collectPhis(w0, bb, instructionsBegin, 1)} |->
        With([w2 \in {collectInstructions(w1, bb, instructionsBegin)} |->
        With([w3 \in {IF w2.ir.blocks[bb].edges = <<>> THEN w2
              ELSE With([ir1 \in {insertPseudoMoveMultiple(w2.ir, bb, Null,
                                  Len(w2.ir.blocks[bb].edges))} |->
                      collectEdges([w2 EXCEPT !.ir = ir1], bb, Len(ir1.insts), 1)])} |->
        With([w4 \in {collectBranch(w3, bb)} |->
       [ir |-> w4.ir, ra |-> postProcess(w4.ir, w4.ra, bb, w4.collected, 1)]])])])])])])])

\* ---- _allocateCompound ----

\* Closed intervals [originPc, finalPc] and [lo, hi] overlap.
overlapsRange(ir, interval, lo, hi) ==
    /\ pcLessEq(ir, interval.originPc, hi)
    /\ pcLessEq(ir, lo, interval.finalPc)

\* A for_overlaps that reports only the intervals that begin inside [lo, hi]
forOverlapsBeginInside(ir, ra, lo, hi) ==
    SelectSeq(ra.allocated,
              LAMBDA i : /\ pcLessEq(ir, lo, ra.intervals[i].originPc)
                         /\ pcLessEq(ir, ra.intervals[i].originPc, hi))

\* _allocated.for_overlaps(fn, lo, hi): the allocated intervals that overlap
\* [lo, hi], in the order of the tree.
forOverlaps(ir, ra, lo, hi) ==
    SelectSeq(ra.allocated,
              LAMBDA i : overlapsRange(ir, ra.intervals[i], lo, hi))

\* The registers r with state[r].allocationPossible = false after the overlap
\* loop: those of overlapping allocated intervals that are not equivalent.
blockedRegisters(ir, ra, compound) ==
    UNION {With([interval \in {ra.intervals[ra.compounds[compound].intervals[n]]} |->
               With([ov \in {forOverlaps(ir, ra, interval.originPc, interval.finalPc)} |->
              {ra.compounds[ra.intervals[ov[m]].compound].allocatedRegister :
                 m \in {x \in 1..Len(ov) :
                          ra.intervals[ov[x]].equivalencePointer
                            # interval.equivalencePointer}}])]) :
           n \in 1..Len(ra.compounds[compound].intervals)}

\* The penalties that name the compound and whose other compound is allocated
activePenalties(ra, compound) ==
    {p \in 1..Len(ra.penalties) :
        With([other \in {IF ra.penalties[p][1] = compound THEN ra.penalties[p][2]
                     ELSE IF ra.penalties[p][2] = compound THEN ra.penalties[p][1]
                     ELSE Null} |->
           other # Null /\ ra.compounds[other].allocatedRegister >= 0])}

penaltyRegister(ra, compound, p) ==
    ra.compounds[IF ra.penalties[p][1] = compound THEN ra.penalties[p][2]
                 ELSE ra.penalties[p][1]].allocatedRegister

\* state[r].relativeCost after the penalty loop
relativeCost(ra, compound, r) ==
    0 - Cardinality({p \in activePenalties(ra, compound) :
                        penaltyRegister(ra, compound, p) = r})

\* A scan that does not look at possibleRegisters
RECURSIVE bestRegisterFromAnyRegister(_, _, _, _, _)
bestRegisterFromAnyRegister(ra, compound, blocked, i, best) ==
    IF i > 15 THEN best
    ELSE IF i \in blocked
    THEN bestRegisterFromAnyRegister(ra, compound, blocked, i + 1, best)
    ELSE IF best < 0
            \/ relativeCost(ra, compound, best) > relativeCost(ra, compound, i)
    THEN bestRegisterFromAnyRegister(ra, compound, blocked, i + 1, i)
    ELSE bestRegisterFromAnyRegister(ra, compound, blocked, i + 1, best)

\* A scan that takes a possible register whether it is blocked or not
RECURSIVE bestRegisterFromBlocked(_, _, _, _, _)
bestRegisterFromBlocked(ra, compound, blocked, i, best) ==
    IF i > 15 THEN best
    ELSE IF ~HasBit(ra.compounds[compound].possibleRegisters, i)
    THEN bestRegisterFromBlocked(ra, compound, blocked, i + 1, best)
    ELSE IF best < 0
            \/ relativeCost(ra, compound, best) > relativeCost(ra, compound, i)
    THEN bestRegisterFromBlocked(ra, compound, blocked, i + 1, i)
    ELSE bestRegisterFromBlocked(ra, compound, blocked, i + 1, best)

\* The scan for the best register: the first possible one, replaced only by a
\* strictly cheaper one.
RECURSIVE bestRegisterFrom(_, _, _, _, _)
bestRegisterFrom(ra, compound, blocked, i, best) ==
    IF i > 15 THEN best
    ELSE IF ~HasBit(ra.compounds[compound].possibleRegisters, i) \/ i \in blocked
    THEN bestRegisterFrom(ra, compound, blocked, i + 1, best)
    ELSE IF best < 0
            \/ relativeCost(ra, compound, best) > relativeCost(ra, compound, i)
    THEN bestRegisterFrom(ra, compound, blocked, i + 1, i)
    ELSE bestRegisterFrom(ra, compound, blocked, i + 1, best)

\* _allocated.insert(interval): behind the intervals whose originPc is not
\* greater.
RECURSIVE insertPosition(_, _, _, _)
insertPosition(ir, ra, interval, k) ==
    IF k > Len(ra.allocated) THEN k
    ELSE IF pcLess(ir, ra.intervals[interval].originPc,
                   ra.intervals[ra.allocated[k]].originPc)
    THEN k
    ELSE insertPosition(ir, ra, interval, k + 1)

\* The loop that sets the registers of the values and inserts the intervals
RECURSIVE allocateIntervals(_, _, _)
allocateIntervals(s, l, k) ==
    IF k > Len(l) THEN s
    ELSE With([interval \in {s.ra.intervals[l[k]]} |->
             With([r \in {s.ra.compounds[interval.compound].allocatedRegister} |->
             With([ir1 \in {IF interval.associatedValue # Null
                    THEN setRegister(s.ir, interval.associatedValue, r)
                    ELSE s.ir} |->
             With([ra1 \in {[s.ra EXCEPT !.allocated =
                        InsertAt(@, insertPosition(ir1, s.ra, l[k], 1), l[k])]} |->
            allocateIntervals([ir |-> ir1, ra |-> ra1], l, k + 1)])])])])

\* void AllocateRegistersImpl::_allocateCompound(LiveCompound *compound)
allocateCompound(ir, ra, compound) ==
    With([bestRegister \in {bestRegisterFrom(ra, compound,
                            blockedRegisters(ir, ra, compound), 0, -1)} |->
        With([baseCost \in {Cardinality(activePenalties(ra, compound))} |->
       IF ra.compounds[compound].allocatedRegister >= 0
       THEN [ir |-> ir, ra |-> [ra EXCEPT !.fail = "assert"]]
       ELSE IF bestRegister < 0
       THEN [ir |-> ir, ra |-> [ra EXCEPT !.fail = "infeasible"]]
       ELSE With([ra1 \in {[ra EXCEPT !.compounds[compound].allocatedRegister =
                                      bestRegister]} |->
                With([s \in {allocateIntervals([ir |-> ir, ra |-> ra1],
                                       ra1.compounds[compound].intervals, 1)} |->
               [ir |-> s.ir,
                ra |-> [s.ra EXCEPT
                         !.usedRegisters = BitOr(@, Pow2(bestRegister)),
                         !.achievedCost = @ + baseCost
                              + relativeCost(ra, compound, bestRegister)]]])])])])

\* ---- _establishAllocation ----
\* The working state e of the loop body for one instruction: the IR, the
\* allocator's members, and the locals liveMap and resultMap.

registerOf(ra, interval) ==
    ra.compounds[ra.intervals[interval].compound].allocatedRegister

\* The prologue loop: PushSave(i) for the saved registers i = from..15
RECURSIVE insertPushSaves(_, _, _, _, _)
insertPushSaves(ir, bb, instructionsBegin, saveMask, i) ==
    IF i > 15 THEN ir
    ELSE IF ~HasBit(saveMask, i)
    THEN insertPushSaves(ir, bb, instructionsBegin, saveMask, i + 1)
    ELSE With([ir1 \in {newInstruction(ir, "pushSave", i)} |->
            insertPushSaves(insertInstruction(ir1, bb, instructionsBegin,
                                              Len(ir1.insts)),
                            bb, instructionsBegin, saveMask, i + 1)])

\* The epilogue loop: PopRestore(i) for the saved registers i = from..0, appended
RECURSIVE insertPopRestores(_, _, _, _)
insertPopRestores(ir, bb, saveMask, i) ==
    IF i < 0 THEN ir
    ELSE IF ~HasBit(saveMask, i) THEN insertPopRestores(ir, bb, saveMask, i - 1)
    ELSE With([ir1 \in {newInstruction(ir, "popRestore", i)} |->
            insertPopRestores(insertInstruction(ir1, bb, Null, Len(ir1.insts)),
                              bb, saveMask, i - 1)])

\* The for_overlaps callback that fills liveMap and resultMap
RECURSIVE fillMaps(_, _, _, _, _)
fillMaps(e, bb, it, ov, k) ==
    IF k > Len(ov) THEN e
    ELSE With([interval \in {e.ra.intervals[ov[k]]} |->
             With([e1 \in {IF pcLess(e.ir, interval.originPc,
                             ProgramCounter(bb, inBlock, it, beforeInstruction))
                   THEN [e EXCEPT !.liveMap =
                            mapInsert(@, interval.associatedValue, ov[k])]
                   ELSE IF interval.originPc
                             = ProgramCounter(bb, inBlock, it, afterInstruction)
                   THEN [e EXCEPT !.resultMap =
                            mapInsert(@, interval.associatedValue, ov[k])]
                   ELSE e} |->
            fillMaps(e1, bb, it, ov, k + 1)])])

\* lambda fixMoveIntervals(operandInterval, resultInterval, lowerInstruction)
fixMoveIntervals(ra, bb, it, operandInterval, resultInterval, lowerInstruction) ==
    With([beforeLower \in {ProgramCounter(bb, inBlock, lowerInstruction,
                                      beforeInstruction)} |->
        With([afterLower \in {ProgramCounter(bb, inBlock, lowerInstruction,
                                     afterInstruction)} |->
        With([ra1 \in {IF ra.intervals[operandInterval].finalPc
                    = ProgramCounter(bb, inBlock, it, beforeInstruction)
               THEN [ra EXCEPT !.intervals[operandInterval].finalPc = beforeLower]
               ELSE ra} |->
        With([result \in {ra1.intervals[resultInterval]} |->
       IF result.originPc # ProgramCounter(bb, inBlock, it, afterInstruction)
       THEN [ra1 EXCEPT !.fail = "assert"]
       ELSE IF result.originPc = result.finalPc
       THEN [ra1 EXCEPT !.intervals[resultInterval].originPc = afterLower,
                        !.intervals[resultInterval].finalPc = afterLower]
       ELSE [ra1 EXCEPT !.intervals[resultInterval].originPc = afterLower]])])])])

\* The fuse of one move: a Nop takes the place of the move, the result's uses
\* go to the operand, and the result interval is re-associated
\* (lambda reassociateResult).
fuseMove(e, bb, it, operandValue, resultValue, operandInterval, resultInterval) ==
    With([ir1 \in {newInstruction(e.ir, "nop", 0)} |->
        With([nop \in {Len(ir1.insts)} |->
        With([ir2 \in {replaceAllUses(ir1, resultValue, operandValue)} |->
        With([ra1 \in {fixMoveIntervals(e.ra, bb, it, operandInterval, resultInterval, nop)} |->
        With([old \in {ra1.intervals[resultInterval].associatedValue} |->
        With([ra2 \in {[ra1 EXCEPT !.intervals[resultInterval].associatedValue =
                   ra1.intervals[operandInterval].associatedValue]} |->
       IF old = Null \/ ~mapHas(e.resultMap, old)
       THEN [e EXCEPT !.ra = [ra1 EXCEPT !.fail = "assert"]]
       ELSE [e EXCEPT !.ir = insertInstruction(ir2, bb, it, nop), !.ra = ra2,
                      !.resultMap = mapErase(@, old)]])])])])])])

\* A MovMR in front of the pseudo-move takes over the k-th operand and result.
emitMove(e, bb, it, k, operandInterval, resultInterval) ==
    With([pseudoMove \in {e.ir.insts[it]} |->
        With([ir1 \in {newInstruction(e.ir, "movMR", 0)} |->
        With([move \in {Len(ir1.insts)} |->
        With([ir2 \in {addOperand(ir1, move, ir1.uses[pseudoMove.operands[k]].ref)} |->
        With([moveResult \in {pseudoMove.results[k]} |->
        With([ir3 \in {[ir2 EXCEPT !.insts[it].results[k] = Null]} |->
        With([ir4 \in {assign(ir3, pseudoMove.operands[k], Null)} |->
        With([ir5 \in {[ir4 EXCEPT !.insts[move].results = <<moveResult>>]} |->
        With([ra1 \in {fixMoveIntervals(e.ra, bb, it, operandInterval, resultInterval, move)} |->
       [e EXCEPT !.ir = insertInstruction(ir5, bb, it, move),
                 !.ra = [ra1 EXCEPT !.numRegisterMoves = @ + 1]]])])])])])])])])])

\* A rewrite that never fuses
rewriteSingleByMove(e, bb, it) ==
    With([pseudoMoveSingle \in {e.ir.insts[it]} |->
        With([operandValue \in {e.ir.uses[pseudoMoveSingle.operands[1]].ref} |->
        With([resultValue \in {pseudoMoveSingle.results[1]} |->
       IF ~mapHas(e.liveMap, operandValue) \/ ~mapHas(e.resultMap, resultValue)
       THEN [e EXCEPT !.ra.fail = "out_of_range"]
       ELSE emitMove(e, bb, it, 1, mapAt(e.liveMap, operandValue),
                     mapAt(e.resultMap, resultValue))])])])

\* PseudoMoveSingleInstruction
rewriteSingle(e, bb, it) ==
    With([pseudoMoveSingle \in {e.ir.insts[it]} |->
        With([operandValue \in {e.ir.uses[pseudoMoveSingle.operands[1]].ref} |->
        With([resultValue \in {pseudoMoveSingle.results[1]} |->
       IF ~mapHas(e.liveMap, operandValue) \/ ~mapHas(e.resultMap, resultValue)
       THEN [e EXCEPT !.ra.fail = "out_of_range"]
       ELSE With([operandInterval \in {mapAt(e.liveMap, operandValue)} |->
                With([resultInterval \in {mapAt(e.resultMap, resultValue)} |->
               IF registerOf(e.ra, operandInterval) = registerOf(e.ra, resultInterval)
               THEN fuseMove(e, bb, it, operandValue, resultValue,
                             operandInterval, resultInterval)
               ELSE emitMove(e, bb, it, 1, operandInterval, resultInterval)])])])])])

\* struct MoveChain
NewMoveChain ==
    [seenInTraversal |-> FALSE, traversalFinished |-> FALSE, cyclePointer |-> None,
     isSource |-> FALSE, pendingMovesFromThisSource |-> 0,
     isTarget |-> FALSE, operandIndex |-> None, uniqueSource |-> None,
     didMoveToThisTarget |-> FALSE, pendingMovesFromThisCycle |-> 0]

\* An isTail() that does not look at the pending moves
isTailAnyTarget(chain) == chain.isTarget

\* bool MoveChain::isTail()
isTail(chain) ==
    IF ~chain.isTarget THEN FALSE
    ELSE IF chain.isSource /\ chain.pendingMovesFromThisSource # 0 THEN FALSE
    ELSE TRUE

\* The loop that builds the MoveChains; e.chains is the array chains[16].
RECURSIVE buildChains(_, _, _, _)
buildChains(e, bb, it, k) ==
    IF k > Len(e.ir.insts[it].operands) \/ e.ra.fail # "none" THEN e
    ELSE
    With([operandValue \in {e.ir.uses[e.ir.insts[it].operands[k]].ref} |->
        With([resultValue \in {e.ir.insts[it].results[k]} |->
       IF ~mapHas(e.liveMap, operandValue) \/ ~mapHas(e.resultMap, resultValue)
       THEN [e EXCEPT !.ra.fail = "out_of_range"]
       ELSE
       With([operandInterval \in {mapAt(e.liveMap, operandValue)} |->
           With([resultInterval \in {mapAt(e.resultMap, resultValue)} |->
           With([operandRegister \in {registerOf(e.ra, operandInterval)} |->
           With([resultRegister \in {registerOf(e.ra, resultInterval)} |->
          IF operandRegister < 0 \/ resultRegister < 0
          THEN [e EXCEPT !.ra.fail = "assert"]
          ELSE IF operandRegister = resultRegister
          THEN buildChains(fuseMove(e, bb, it, operandValue, resultValue,
                                    operandInterval, resultInterval),
                           bb, it, k + 1)
          ELSE IF e.chains[resultRegister].uniqueSource # None
          THEN [e EXCEPT !.ra.fail = "assert"]
          ELSE buildChains(
                 [e EXCEPT !.chains[resultRegister].isTarget = TRUE,
                           !.chains[resultRegister].operandIndex = k,
                           !.chains[resultRegister].uniqueSource = operandRegister,
                           !.chains[operandRegister].isSource = TRUE,
                           !.chains[operandRegister].pendingMovesFromThisSource =
                               e.chains[operandRegister].pendingMovesFromThisSource
                                 + 1],
                 bb, it, k + 1)])])])])])])

\* The do-while loop that marks a cycle, from the top of the stack down to current
RECURSIVE markCycle(_, _, _, _)
markCycle(chains, stack, n, current) ==
    With([chains1 \in {[chains EXCEPT ![stack[n]].cyclePointer = current]} |->
        With([chains2 \in {[chains1 EXCEPT ![current].pendingMovesFromThisCycle =
                       @ + chains1[stack[n]].pendingMovesFromThisSource - 1]} |->
       IF stack[n] # current THEN markCycle(chains2, stack, n - 1, current)
       ELSE chains2])])

\* The while loop that walks from a root along uniqueSource
RECURSIVE walkChain(_, _, _)
walkChain(chains, current, stack) ==
    IF current = None THEN [chains |-> chains, stack |-> stack]
    ELSE IF chains[current].traversalFinished
    THEN [chains |-> chains, stack |-> stack]
    ELSE IF chains[current].seenInTraversal
    THEN [chains |-> markCycle(chains, stack, Len(stack), current),
          stack |-> stack]
    ELSE walkChain([chains EXCEPT ![current].seenInTraversal = TRUE],
                   chains[current].uniqueSource, Append(stack, current))

\* for (auto chain : stack) chain->traversalFinished = true
RECURSIVE finishStack(_, _, _)
finishStack(chains, stack, n) ==
    IF n > Len(stack) THEN chains
    ELSE finishStack([chains EXCEPT ![stack[n]].traversalFinished = TRUE],
                     stack, n + 1)

\* A traversal that notes every target as a tail
RECURSIVE traverseChainsAllTargets(_, _, _)
traverseChainsAllTargets(chains, activeTails, i) ==
    IF i > 15 THEN [chains |-> chains, activeTails |-> activeTails]
    ELSE With([tails1 \in {IF chains[i].isTarget THEN Append(activeTails, i)
                           ELSE activeTails} |->
             With([r \in {walkChain(chains, i, <<>>)} |->
            traverseChainsAllTargets(finishStack(r.chains, r.stack, 1), tails1,
                                     i + 1)])])

\* The traversal over the roots i = 0..15: tails are noted, cycles are marked.
RECURSIVE traverseChains(_, _, _)
traverseChains(chains, activeTails, i) ==
    IF i > 15 THEN [chains |-> chains, activeTails |-> activeTails]
    ELSE With([tails1 \in {IF isTail(chains[i]) THEN Append(activeTails, i)
                       ELSE activeTails} |->
             With([r \in {walkChain(chains, i, <<>>)} |->
            traverseChains(finishStack(r.chains, r.stack, 1), tails1, i + 1)])])

\* lambda emitMoveToChain(targetChain)
emitMoveToChain(e, bb, it, targetChain) ==
    With([index \in {e.chains[targetChain].operandIndex} |->
        With([srcChain \in {e.chains[targetChain].uniqueSource} |->
        With([operandValue \in {e.ir.uses[e.ir.insts[it].operands[index]].ref} |->
        With([resultValue \in {e.ir.insts[it].results[index]} |->
       IF \/ e.chains[targetChain].didMoveToThisTarget
          \/ e.chains[srcChain].pendingMovesFromThisSource <= 0
       THEN [e EXCEPT !.ra.fail = "assert"]
       ELSE IF ~mapHas(e.liveMap, operandValue) \/ ~mapHas(e.resultMap, resultValue)
       THEN [e EXCEPT !.ra.fail = "out_of_range"]
       ELSE
       With([operandInterval \in {mapAt(e.liveMap, operandValue)} |->
           With([resultInterval \in {mapAt(e.resultMap, resultValue)} |->
           With([e1 \in {emitMove(e, bb, it, index, operandInterval, resultInterval)} |->
           With([chains1 \in {[e1.chains EXCEPT
                         ![targetChain].didMoveToThisTarget = TRUE,
                         ![srcChain].pendingMovesFromThisSource = @ - 1]} |->
           With([tails1 \in {IF isTail(chains1[srcChain])
                     THEN Append(e1.activeTails, srcChain) ELSE e1.activeTails} |->
           With([cycleChain \in {chains1[srcChain].cyclePointer} |->
           With([leavesCycle \in {cycleChain # None
                            /\ cycleChain # chains1[targetChain].cyclePointer} |->
           With([chains2 \in {IF leavesCycle
                      THEN [chains1 EXCEPT ![cycleChain].pendingMovesFromThisCycle =
                                               @ - 1]
                      ELSE chains1} |->
           With([cycles1 \in {IF leavesCycle
                         /\ chains2[cycleChain].pendingMovesFromThisCycle = 0
                      THEN Append(e1.activeCycles, cycleChain)
                      ELSE e1.activeCycles} |->
          IF \/ registerOf(e.ra, operandInterval) # srcChain
             \/ registerOf(e.ra, resultInterval) # targetChain
          THEN [e EXCEPT !.ra.fail = "assert"]
          ELSE [e1 EXCEPT !.chains = chains2, !.activeTails = tails1,
                          !.activeCycles = cycles1]])])])])])])])])])])])])])

\* while (!activeTails.empty()): the tail at the back is popped and emitted.
RECURSIVE emitTails(_, _, _)
emitTails(e, bb, it) ==
    IF e.activeTails = <<>> \/ e.ra.fail # "none" THEN e
    ELSE With([tailRegister \in {e.activeTails[Len(e.activeTails)]} |->
            emitTails(emitMoveToChain(
                          [e EXCEPT !.activeTails = SubSeq(@, 1, Len(@) - 1)],
                          bb, it, tailRegister),
                      bb, it)])

\* PseudoMoveMultipleInstruction
rewriteMultiple(e, bb, it) ==
    With([e1 \in {buildChains([e EXCEPT !.chains = [c \in 0..15 |-> NewMoveChain],
                                    !.activeTails = <<>>, !.activeCycles = <<>>],
                          bb, it, 1)} |->
        With([t \in {traverseChains(e1.chains, <<>>, 0)} |->
        With([e2 \in {emitTails([e1 EXCEPT !.chains = t.chains,
                                   !.activeTails = t.activeTails], bb, it)} |->
       IF e1.ra.fail # "none" THEN e1
       ELSE IF e2.ra.fail = "none" /\ e2.activeCycles # <<>>
       THEN [e2 EXCEPT !.ra.fail = "assert"]
       ELSE e2])])])

\* The loop over the instructions of the block
\* One turn of the instruction loop of _establishAllocation: the function, the
\* allocator and the iterator after it
establishInstruction(s, bb, it) ==
    With([e0 \in {[ir |-> s.ir, ra |-> s.ra, liveMap |-> <<>>, resultMap |-> <<>>,
                   chains |-> <<>>, activeTails |-> <<>>, activeCycles |-> <<>>]} |->
    With([e1 \in {fillMaps(e0, bb, it,
                      forOverlaps(s.ir, s.ra,
                          ProgramCounter(bb, inBlock, it, beforeInstruction),
                          ProgramCounter(bb, inBlock, it, afterInstruction)), 1)} |->
    With([kind \in {s.ir.insts[it].kind} |->
    With([rewroteInstruction \in {kind \in {"pseudoMoveSingle", "pseudoMoveMultiple"}} |->
    With([e2 \in {IF kind = "pseudoMoveSingle" THEN rewriteSingle(e1, bb, it)
                  ELSE IF kind = "pseudoMoveMultiple" THEN rewriteMultiple(e1, bb, it)
                  ELSE e1} |->
       [ir |-> IF rewroteInstruction /\ e2.ra.fail = "none"
               THEN eraseInstruction(e2.ir, bb, it) ELSE e2.ir,
        ra |-> e2.ra,
        it |-> listNext(e2.ir.blocks[bb].insts, it)]])])])])])

RECURSIVE establishInstructions(_, _, _)
establishInstructions(s, bb, it) ==
    IF it = Null \/ s.ra.fail # "none" THEN s
    ELSE With([n \in {establishInstruction(s, bb, it)} |->
            establishInstructions([ir |-> n.ir, ra |-> n.ra], bb, n.it)])

\* void AllocateRegistersImpl::_establishAllocation(BasicBlock *bb)
\* size_t frameSpace = 0; if (!((frameSpace + saveSpace) & 0xF)) frameSpace += 8;
frameSpaceNoPad(saveSpace) == 0
frameSpaceOf(saveSpace) == IF (0 + saveSpace) % 16 = 0 THEN 0 + 8 ELSE 0

establishAllocation(ir, ra, bb) ==
    With([saveMask \in {BitAnd(callerRegs, ra.usedRegisters)} |->
        With([saveSpace \in {PopCount(saveMask) * 8} |->
        With([frameSpace \in {frameSpaceOf(saveSpace)} |->
        With([l \in {ir.blocks[bb].insts} |->
        With([instructionsBegin \in {IF l = <<>> THEN Null ELSE l[1]} |->
        With([ir1 \in {IF bb = 1
               THEN insertPushSaves(ir, bb, instructionsBegin, saveMask, 0)
               ELSE ir} |->
        With([ir2 \in {IF bb = 1 /\ frameSpace # 0
               THEN With([ir1a \in {newInstruction(ir1, "decrementStack", frameSpace)} |->
                       insertInstruction(ir1a, bb, instructionsBegin,
                                         Len(ir1a.insts))])
               ELSE ir1} |->
        With([l2 \in {ir2.blocks[bb].insts} |->
        With([s \in {establishInstructions([ir |-> ir2, ra |-> ra], bb,
                                   IF l2 = <<>> THEN Null ELSE l2[1])} |->
        With([isRet \in {s.ir.branches[s.ir.blocks[bb].branch].kind = "ret"} |->
        With([ir3 \in {IF isRet THEN insertPopRestores(s.ir, bb, saveMask, 15) ELSE s.ir} |->
        With([ir4 \in {IF isRet /\ frameSpace # 0
               THEN With([ir3a \in {newInstruction(ir3, "incrementStack", frameSpace)} |->
                       insertInstruction(ir3a, bb, Null, Len(ir3a.insts))])
               ELSE ir3} |->
       IF (frameSpace + saveSpace) % 16 # 8
       THEN [ir |-> ir, ra |-> [ra EXCEPT !.fail = "assert"]]
       ELSE IF s.ra.fail # "none" THEN s
       ELSE [ir |-> ir4, ra |-> s.ra]])])])])])])])])])])])])

\* ------------------------------------------------------------------------
\* Initial values shared by the specifications
\* ------------------------------------------------------------------------

NoOp == [op |-> "none", u |-> Null, v |-> Null, w |-> Null,
         preVals |-> <<>>, preUses |-> <<>>]

IRInitEmpty ==
    /\ vals = <<>> /\ uses = <<>> /\ insts = <<>> /\ blocks = <<>>
    /\ branches = <<>> /\ phis = <<>> /\ edges = <<>> /\ rewrites = <<>>
    /\ lastOp = NoOp
    /\ allocator = RaEmpty

\* The MachineCodeEmitter object with the locals of run(): the sections, the
\* block symbols, the assertion that stopped it.  blockStart and sites are
\* history: the .text offset at which the emission of each block began, and
\* for every call, PLT stub and jump emitted its section, the offset of its
\* first opcode byte, the length of its opcode and the symbol it goes to;
\* runs counts the emitters that have run on the Object.
NewMachineCodeEmitter ==
    [ran |-> FALSE, failed |-> "none", textSection |-> Null, gotSection |-> Null,
     pltSection |-> Null, bbSymbols |-> <<>>, blockStart |-> <<>>, sites |-> <<>>,
     runs |-> 0]

\* FileEmitter::create(&elf): the buffer is empty.  size is buffer.size();
\* at[k] is buffer.size() when fragment k is reached (after the padding),
\* wrote[k] the number of bytes emitted for it; failed names the assertion
\* that stopped run().
NewFileEmitter ==
    [ran |-> FALSE, failed |-> "none", size |-> 0, at |-> <<>>, wrote |-> <<>>]

ElfInitEmpty ==
    /\ fragments = <<>> /\ strings = <<>> /\ symbols = <<>> /\ relocations = <<>>
    /\ internalRelocations = <<>> /\ fileEmitter = NewFileEmitter
    /\ mcEmitter = NewMachineCodeEmitter
    /\ numSections = 0
    /\ layoutRuns = 0 /\ sinceLayout = 0 /\ prevLayout = [valid |-> FALSE]

\* Writes an IR heap record back to the variables.
SetIR(ir) ==
    /\ vals' = ir.vals /\ uses' = ir.uses /\ insts' = ir.insts
    /\ blocks' = ir.blocks /\ branches' = ir.branches /\ phis' = ir.phis
    /\ edges' = ir.edges /\ rewrites' = ir.rewrites

\* ------------------------------------------------------------------------
\* SpecUse: arbitrary sequences of ValueUse construction, ValueUse::assign and
\* Value::replaceAllUses over NumValues Values and at most MaxUses ValueUses.
\* ------------------------------------------------------------------------

InitUse ==
    /\ vals = [i \in 1..NumValues |-> NewValue("local", "int32", "null", 0, Null)]
    /\ uses = <<>> /\ insts = <<>> /\ blocks = <<>>
    /\ branches = <<>> /\ phis = <<>> /\ edges = <<>> /\ rewrites = <<>>
    /\ lastOp = NoOp
    /\ allocator = RaEmpty
    /\ pc = [phase |-> "uses", block |-> 0]
    /\ ElfInitEmpty

\* ValueUse{inst, v} (v = Null: ValueUse{inst})
ConstructUse(v) ==
    /\ pc.phase = "uses"
    /\ Len(uses) < MaxUses
    /\ SetIR(newValueUse(IR, Null, v))
    /\ lastOp' = [op |-> "construct", u |-> Len(uses) + 1, v |-> v, w |-> Null,
                  preVals |-> vals, preUses |-> uses]
    /\ UNCHANGED <<pc, allocator, elfVars>>

\* use = v, for any v including nullptr and the current referent
AssignUse(u, v) ==
    /\ pc.phase = "uses"
    /\ SetIR(assign(IR, u, v))
    /\ lastOp' = [op |-> "assign", u |-> u, v |-> v, w |-> Null,
                  preVals |-> vals, preUses |-> uses]
    /\ UNCHANGED <<pc, allocator, elfVars>>

\* v->replaceAllUses(w); the assert demands w != v
ReplaceAllUses(v, w) ==
    /\ pc.phase = "uses"
    /\ w # v
    /\ SetIR(replaceAllUses(IR, v, w))
    /\ lastOp' = [op |-> "replaceAllUses", u |-> Null, v |-> v, w |-> w,
                  preVals |-> vals, preUses |-> uses]
    /\ UNCHANGED <<pc, allocator, elfVars>>

NextUse ==
    \/ \E v \in 0..NumValues : ConstructUse(v)
    \/ \E u \in 1..Len(uses), v \in 0..NumValues : AssignUse(u, v)
    \/ \E v \in 1..NumValues, w \in 0..NumValues : ReplaceAllUses(v, w)

SpecUse == InitUse /\ [][NextUse]_vars

\* ---- C6 ----
\* Iterating over a snapshot of v's uses and assigning w to each of them.
RECURSIVE assignEach(_, _, _)
assignEach(ir, snapshot, w) ==
    IF snapshot = <<>> THEN ir
    ELSE assignEach(assign(ir, Head(snapshot), w), Tail(snapshot), w)

\* C6: v.replaceAllUses(w) with v != w has the effect of assigning w to each of
\* v's uses in list order: afterwards v's use-list is empty, w's use-list is its
\* previous uses followed by v's previous uses in their order, every moved use
\* refers to w, and every other use-list and use is unchanged.
C6_ReplaceAllUsesIsAssignEach ==
    lastOp.op = "replaceAllUses" =>
        LET v == lastOp.v
            w == lastOp.w
            pre == [IR EXCEPT !.vals = lastOp.preVals, !.uses = lastOp.preUses]
            moved == lastOp.preVals[v].useList
            ref == assignEach(pre, moved, w)
        IN /\ vals = ref.vals /\ uses = ref.uses
           /\ vals[v].useList = <<>>
           /\ w # Null => vals[w].useList = lastOp.preVals[w].useList \o moved
           /\ \A x \in 1..Len(vals) :
                  x \notin {v, w} => vals[x].useList = lastOp.preVals[x].useList
           /\ \A u \in 1..Len(uses) :
                  uses[u].ref = IF u \in Range(moved) THEN w ELSE lastOp.preUses[u].ref

\* A replaceAllUses that moved two uses behind an existing use of w.
C6_Witness ==
    /\ lastOp.op = "replaceAllUses"
    /\ lastOp.w # Null
    /\ Len(lastOp.preVals[lastOp.v].useList) >= 2
    /\ lastOp.preVals[lastOp.w].useList # <<>>
    /\ Len(vals[lastOp.w].useList) >= 3

\* ---- C7 ----
\* C7: the use-list of every Value v holds exactly the ValueUses whose _ref is
\* v, each once; a ValueUse whose _ref is null is in no use-list.
C7_UseListsMatchRefs ==
    /\ \A v \in 1..Len(vals) :
          /\ NoDuplicates(vals[v].useList)
          /\ Range(vals[v].useList) = {u \in 1..Len(uses) : uses[u].ref = v}
    /\ \A u \in 1..Len(uses) :
          uses[u].ref = Null => \A v \in 1..Len(vals) : u \notin Range(vals[v].useList)

\* A use re-assigned to the Value it already refers to, next to a null use
\* and a use-list with two entries.
C7_Witness ==
    /\ lastOp.op = "assign"
    /\ lastOp.v # Null
    /\ lastOp.preUses[lastOp.u].ref = lastOp.v
    /\ \E u \in 1..Len(uses) : uses[u].ref = Null
    /\ Len(vals[lastOp.v].useList) >= 2

\* ------------------------------------------------------------------------
\* ELF object (object.hpp) and the passes that build and lay it out
\* ------------------------------------------------------------------------

\* TLC's integers are 32 bits wide.  size_t keeps its wrap-around, at a modulus
\* of 2^SizeTBits, which like 2^64 is a multiple of the page size.
SizeTBits == 30
SizeTMod == Pow2(SizeTBits)

\* Bounds of the ELF model
MaxByteSections == 2
MaxStrings == 1
MaxSymbols == 2
MaxRelocations == 1
MaxLayoutRuns == 2

\* Contents of the strings the model adds (bytes); ".dynamic" is what
\* CreateHeadersPass adds.
Names == {<<97>>, <<98, 99>>}
DynamicName == <<46, 100, 121, 110, 97, 109, 105, 99>>

\* buffer.size() of the ByteSections the model inserts
BufferSizes == {4032, 8192}

\* Values an uninitialized size_t may hold when it is read
UninitSizes == {24, SizeTMod - 64}

EhdrSize == 64
SizeofPhdr == 56
SizeofShdr == 64
SizeofSym == 24
SizeofRela == 24
DynamicSize == 6 * 16
PageSize == 4096

ELF == [fragments |-> fragments, strings |-> strings, symbols |-> symbols,
        relocations |-> relocations, internalRelocations |-> internalRelocations,
        numSections |-> numSections]

\* Fragment(kind): the std::optional members are empty.  bufferSize is
\* buffer.size() of a ByteSection; buffer holds its bytes where the model
\* follows them (the sections the machine-code emitter fills), name is the
\* String of the section name.
NewFragment(kind, bufferSize) ==
    [kind |-> kind, bufferSize |-> bufferSize, designatedIndex |-> None,
     fileOffset |-> None, virtualAddress |-> None, computedSize |-> None,
     buckets |-> <<>>, chains |-> <<>>, buffer |-> <<>>, name |-> Null]

\* bool Fragment::isSection(): kind >= fragment_kinds::byteSection
isSection(f) ==
    f.kind \in {"byteSection", "dynamicSection", "stringTableSection",
                "symbolTableSection", "relocationSection", "hashSection"}

\* Object::insertFragment: appends, and counts the sections.
insertFragment(elf, f) ==
    [elf EXCEPT !.fragments = Append(@, f),
                !.numSections = IF isSection(f) THEN @ + 1 ELSE @]

\* Object::addString
addString(elf, buffer) ==
    [elf EXCEPT !.strings = Append(@, [buffer |-> buffer, designatedOffset |-> None])]

\* Object::addSymbol
addSymbol(elf, name) ==
    [elf EXCEPT !.symbols = Append(@, [name |-> name, section |-> Null, value |-> 0,
                                       designatedIndex |-> None])]

\* std::make_unique<Relocation>(); the optional addend is a sequence of at
\* most one element.
NewRelocation ==
    [section |-> Null, offset |-> -1, symbol |-> Null, addend |-> <<>>,
     designatedIndex |-> None]

\* Object::addRelocation
addRelocation(elf) ==
    [elf EXCEPT !.relocations = Append(@, NewRelocation)]

\* Object::addInternalRelocation
addInternalRelocation(elf, r) ==
    [elf EXCEPT !.internalRelocations = Append(@, r)]

\* void CreateHeadersPassImpl::run()
CreateHeadersRun(elf) ==
    With([e0 \in {addString(elf, DynamicName)} |->
        With([e1 \in {insertFragment(e0, NewFragment("phdrsFragment", 0))} |->
        With([e2 \in {insertFragment(e1, NewFragment("shdrsFragment", 0))} |->
        With([e3 \in {insertFragment(e2, NewFragment("dynamicSection", 0))} |->
        With([e4 \in {insertFragment(e3, NewFragment("stringTableSection", 0))} |->
        With([e5 \in {insertFragment(e4, NewFragment("symbolTableSection", 0))} |->
        With([e6 \in {insertFragment(e5, NewFragment("relocationSection", 0))} |->
       insertFragment(e6, NewFragment("hashSection", 0))])])])])])])])

\* T ceil2Power(T v) for T = size_t
RECURSIVE ceil2PowerLoop(_, _)
ceil2PowerLoop(v, i) ==
    IF i >= SizeTBits THEN v
    ELSE ceil2PowerLoop(BitOr(v, v \div Pow2(i)), i * 2)

ceil2Power(v) == (ceil2PowerLoop((v + SizeTMod - 1) % SizeTMod, 1) + 1) % SizeTMod

\* uint32_t elf64Hash(const std::string &s).  h stays below 2^28 between
\* iterations; (h << 4) + c is computed as its bits 28..31 (hi) and its low 28
\* bits, so that no intermediate value exceeds 31 bits.
elf64HashChar(h, c) ==
    With([low \in {(h % Pow2(24)) * 16 + c} |->
    With([g \in {((h \div Pow2(24)) + (low \div Pow2(28))) % 16} |->
    With([h1 \in {low % Pow2(28)} |->
       IF g # 0 THEN BitXor(h1, g * 16) ELSE h1])])])

RECURSIVE elf64HashLoop(_, _, _)
elf64HashLoop(s, i, h) ==
    IF i > Len(s) THEN h
    ELSE With([h1 \in {elf64HashChar(h, s[i])} |-> elf64HashLoop(s, i + 1, h1)])

elf64Hash(s) == elf64HashLoop(s, 1, 0)

\* std::vector::resize(n, fill): keeps the first n elements, pads with fill.
resize(v, n, fill) ==
    [i \in 1..n |-> IF i <= Len(v) THEN v[i] ELSE fill]

\* The symbol loop of the HashSection branch.  h is [buckets, chains, tail];
\* bucket b of the code is position b + 1, chains[t] is position t + 1.
hashSymbol(elf, h, tableSize, k) ==
    With([symbol \in {elf.symbols[k]} |->
    With([b \in {BitAnd(elf64Hash(elf.strings[symbol.name].buffer),
                        (tableSize + SizeTMod - 1) % SizeTMod)} |->
    With([t \in {h.tail[b + 1]} |->
       IF t = 0
       THEN [h EXCEPT !.buckets[b + 1] = k,
                      !.tail[b + 1] = symbol.designatedIndex]
       ELSE [h EXCEPT !.chains[t + 1] = k,
                      !.tail[b + 1] = symbol.designatedIndex]])])])

RECURSIVE hashFill(_, _, _, _)
hashFill(elf, h, tableSize, k) ==
    IF k > Len(elf.symbols) THEN h
    ELSE With([h1 \in {hashSymbol(elf, h, tableSize, k)} |->
            hashFill(elf, h1, tableSize, k + 1)])

\* The string loop of the StringTableSection branch; yields [strings, size].
RECURSIVE layoutStrings(_, _, _)
layoutStrings(strs, k, size) ==
    IF k > Len(strs) THEN [strings |-> strs, size |-> size]
    ELSE layoutStrings([strs EXCEPT ![k].designatedOffset = size], k + 1,
                       (size + Len(strs[k].buffer) + 1) % SizeTMod)

\* The size computation of one loop iteration of LayoutPassImpl::run(), with the
\* metadata it writes.  uninit is what the declaration `size_t size;` holds
\* while nothing has been assigned to it.
layoutSize(elf, k, uninit) ==
    With([kind \in {elf.fragments[k].kind} |->
       CASE kind = "phdrsFragment" ->
              [elf |-> elf, size |-> ((Len(elf.fragments) + 1) * SizeofPhdr) % SizeTMod]
         [] kind = "shdrsFragment" ->
              [elf |-> elf, size |-> ((1 + elf.numSections) * SizeofShdr) % SizeTMod]
         [] kind = "dynamicSection" ->
              [elf |-> elf, size |-> DynamicSize]
         [] kind = "stringTableSection" ->
              With([r \in {layoutStrings(elf.strings, 1, 1)} |->
                 [elf |-> [elf EXCEPT !.strings = r.strings], size |-> r.size]])
         [] kind = "symbolTableSection" ->
              [elf |-> [elf EXCEPT !.symbols =
                            [i \in 1..Len(elf.symbols) |->
                                [elf.symbols[i] EXCEPT !.designatedIndex = i]]],
               size |-> (SizeofSym * (Len(elf.symbols) + 1)) % SizeTMod]
         [] kind = "relocationSection" ->
              [elf |-> [elf EXCEPT !.relocations =
                            [i \in 1..Len(elf.relocations) |->
                                [elf.relocations[i] EXCEPT !.designatedIndex = i - 1]]],
               size |-> (SizeofRela * Len(elf.relocations)) % SizeTMod]
         [] kind = "hashSection" ->
              With([tableSize \in {ceil2Power(Len(elf.symbols))} |->
                  With([h0 \in {[buckets |-> resize(elf.fragments[k].buckets, tableSize, Null),
                         chains |-> resize(elf.fragments[k].chains,
                                           Len(elf.symbols) + 1, Null),
                         tail |-> [i \in 1..tableSize |-> 0]]} |->
                  With([h \in {hashFill(elf, h0, tableSize, 1)} |->
                 [elf |-> [elf EXCEPT !.fragments[k].buckets = h.buckets,
                                      !.fragments[k].chains = h.chains],
                  size |-> uninit]])])])
         [] kind = "byteSection" ->
              [elf |-> elf, size |-> elf.fragments[k].bufferSize]])

\* One iteration of the fragment loop of LayoutPassImpl::run(): the Object
\* and the locals sectionIndex, offset and address after it.
layoutFragment(elf, k, sectionIndex, offset, address, uninit) ==
    With([r \in {layoutSize(elf, k, uninit)} |->
    With([sec \in {isSection(elf.fragments[k])} |->
    With([offset1 \in {((offset + 7) % SizeTMod) - (((offset + 7) % SizeTMod) % 8)} |->
    With([address1 \in {((address + 4095) % SizeTMod)
                            - (((address + 4095) % SizeTMod) % PageSize)} |->
    With([address2 \in {(address1 + (offset1 % PageSize)) % SizeTMod} |->
       [elf |-> [r.elf EXCEPT
                    !.fragments[k].designatedIndex = IF sec THEN sectionIndex ELSE @,
                    !.fragments[k].fileOffset = offset1,
                    !.fragments[k].virtualAddress = address2,
                    !.fragments[k].computedSize = r.size],
        sectionIndex |-> IF sec THEN sectionIndex + 1 ELSE sectionIndex,
        offset |-> (offset1 + r.size) % SizeTMod,
        address |-> address2]])])])])])

\* The fragment loop of LayoutPassImpl::run().
RECURSIVE layoutLoop(_, _, _, _, _, _)
layoutLoop(elf, k, sectionIndex, offset, address, uninit) ==
    IF k > Len(elf.fragments) THEN elf
    ELSE With([n \in {layoutFragment(elf, k, sectionIndex, offset, address, uninit)} |->
            layoutLoop(n.elf, k + 1, n.sectionIndex, n.offset, n.address, uninit)])

\* void LayoutPassImpl::run()
LayoutPassRun(elf, uninit) == layoutLoop(elf, 1, 1, EhdrSize, PageSize, uninit)

\* ------------------------------------------------------------------------
\* MachineCodeEmitter (mc-emitter.cpp) and the ByteEncoder (byte-encode.hpp)
\* ------------------------------------------------------------------------

\* Byte k (0 = lowest) of v in two's complement
byteOf(v, k) ==
    IF v >= 0 THEN (v \div Pow2(8 * k)) % 256
    ELSE 255 - (((-v - 1) \div Pow2(8 * k)) % 256)

\* _poke<uint32_t>(v): the low 32 bits of v, little-endian
le32(v) == <<byteOf(v, 0), byteOf(v, 1), byteOf(v, 2), byteOf(v, 3)>>

\* _poke<uint64_t>(v) for |v| < 2^31: the sign fills the high half
le64(v) == le32(v) \o [k \in 1..4 |-> IF v < 0 THEN 255 ELSE 0]

\* The int32_t stored little-endian in b[at + 1 .. at + 4] (at counts from 0)
read32(b, at) ==
    IF b[at + 4] < 128
    THEN b[at + 1] + 256 * b[at + 2] + 65536 * b[at + 3] + 16777216 * b[at + 4]
    ELSE -(1 + (255 - b[at + 1]) + 256 * (255 - b[at + 2])
             + 65536 * (255 - b[at + 3]) + 16777216 * (255 - b[at + 4]))

\* ByteEncoder::_poke on the buffer of ByteSection f
poke(elf, f, bytes) ==
    [elf EXCEPT !.fragments[f].buffer = @ \o bytes,
                !.fragments[f].bufferSize = @ + Len(bytes)]

\* Characters of the names the emitter composes
TextName == <<46, 116, 101, 120, 116>>
GotName == <<46, 103, 111, 116>>
PltName == <<46, 112, 108, 116>>
AtGot == <<64, 103, 111, 116>>
AtPlt == <<64, 112, 108, 116>>
DotBb == <<46, 98, 98>>
\* _fn->name of the function the pipeline builds ("f0")
FunctionName == <<102, 48>>

\* The characters of call->function ("f" is the one callee of the model)
functionChars(function) == IF function = "f" THEN <<102>> ELSE <<63>>

\* std::to_string(i) for i < 10
toString(i) == <<48 + i>>

\* void encodeRawRex(enc, os, r, x, b): nothing when no bit is set
encodeRawRex(os, r, x, b) ==
    With([w \in {IF os = "qword" THEN 1 ELSE 0} |->
       IF w + r + x + b > 0 THEN <<64 + 8 * w + 4 * r + 2 * x + b>> ELSE <<>>])

\* void encodeRawModRm(enc, mod, m, x)
encodeRawModRm(mod, m, x) == <<64 * mod + 8 * x + m>>

\* ModRmEncoding{mv, rv} (xop = -1) or ModRmEncoding{mv, xop} (rv = Null):
\* encodeRex, the opcode, encodeModRmSib.  failed names the assertion that
\* stops the emitter.
encodeModRm(ir, mv, rv, xop, opcode) ==
    With([m \in {ir.vals[mv]} |->
    With([isRegister \in {m.valueKind = "registerMode"} |->
    IF m.valueKind \notin {"registerMode", "baseDispMemoryMode"}
    THEN [failed |-> "value", bytes |-> <<>>]
    ELSE IF rv # Null /\ ir.vals[rv].valueKind \notin {"registerMode", "baseDispMemoryMode"}
    THEN [failed |-> "value", bytes |-> <<>>]
    ELSE IF rv # Null /\ m.operandSize # ir.vals[rv].operandSize
    THEN [failed |-> "operandSize", bytes |-> <<>>]
    ELSE IF m.reg < 0 THEN [failed |-> "register", bytes |-> <<>>]
    ELSE IF rv # Null /\ ir.vals[rv].valueKind # "registerMode"
    THEN [failed |-> "value", bytes |-> <<>>]
    ELSE IF rv # Null /\ ir.vals[rv].reg < 0 THEN [failed |-> "register", bytes |-> <<>>]
    ELSE With([x \in {IF rv # Null THEN ir.vals[rv].reg ELSE xop} |->
         With([rex \in {encodeRawRex(m.operandSize, IF x >= 8 THEN 1 ELSE 0, 0,
                                    IF m.reg >= 8 THEN 1 ELSE 0)} |->
         IF isRegister
         THEN [failed |-> "none",
               bytes |-> rex \o <<opcode>> \o encodeRawModRm(3, m.reg % 8, x % 8)]
         ELSE IF m.reg % 8 = 5 THEN [failed |-> "sib", bytes |-> <<>>]
         ELSE IF m.disp >= -128 /\ m.disp <= 127
         THEN [failed |-> "none",
               bytes |-> rex \o <<opcode>> \o encodeRawModRm(1, m.reg % 8, x % 8)
                             \o <<byteOf(m.disp, 0)>>]
         ELSE [failed |-> "none",
               bytes |-> rex \o <<opcode>> \o encodeRawModRm(2, m.reg % 8, x % 8)
                             \o le32(m.disp)]])])])])

\* The symbol and string for `name`, in section `section` at `value`
addNamedSymbol(elf, name, section, value) ==
    With([e1 \in {addString(elf, name)} |->
    With([e2 \in {addSymbol(e1, Len(e1.strings))} |->
       [e2 EXCEPT !.symbols[Len(e2.symbols)].section = section,
                  !.symbols[Len(e2.symbols)].value = value]])])

\* pcRelative without the addend
pcRelativeNoAddend(section, offset, symbol) ==
    [NewRelocation EXCEPT !.section = section, !.offset = offset, !.symbol = symbol]

\* An internal relocation with addend -4
pcRelative(section, offset, symbol) ==
    [NewRelocation EXCEPT !.section = section, !.offset = offset,
                          !.symbol = symbol, !.addend = <<-4>>]

\* The opcode bytes of an instruction that has no relocation; w is
\* [elf, mce], the Object and the emitter.
emitPlain(w, r) ==
    IF r.failed # "none" THEN [w EXCEPT !.mce.failed = r.failed]
    ELSE [w EXCEPT !.elf = poke(w.elf, w.mce.textSection, r.bytes)]

\* PushSave / PopRestore: opcode + register below 8, else REX.B, op, ModRM
emitPushPop(operandRegister, short, long, xop) ==
    IF operandRegister < 0 THEN [failed |-> "register", bytes |-> <<>>]
    ELSE IF operandRegister < 8
    THEN [failed |-> "none", bytes |-> <<short + operandRegister>>]
    ELSE [failed |-> "none",
          bytes |-> encodeRawRex("dword", 0, 0, 1) \o <<long>>
                        \o encodeRawModRm(3, operandRegister % 8, xop)]

\* MovMC: B8+r imm32 below register 8, else REX C7 /0 imm32
emitMovMC(ir, inst) ==
    With([result \in {ir.insts[inst].results[1]} |->
    With([rr \in {ir.vals[result].reg} |->
    IF ir.vals[result].valueKind # "registerMode" THEN [failed |-> "value", bytes |-> <<>>]
    ELSE IF rr < 0 THEN [failed |-> "register", bytes |-> <<>>]
    ELSE IF rr < 8
    THEN [failed |-> "none", bytes |-> <<184 + rr>> \o le32(ir.insts[inst].imm)]
    ELSE With([r \in {encodeModRm(ir, result, Null, 0, 199)} |->
            [r EXCEPT !.bytes = IF r.failed = "none"
                                 THEN @ \o le32(ir.insts[inst].imm) ELSE @]])])])

\* The CallInstruction branch of _emitBlock: the dynamic symbol, the GOT
\* slot with its JUMP_SLOT relocation, the PLT stub, the call.
emitCall(w, ir, inst) ==
    With([function \in {functionChars(ir.insts[inst].imm)} |->
    With([got \in {w.mce.gotSection} |->
    With([plt \in {w.mce.pltSection} |->
    With([text \in {w.mce.textSection} |->
    With([e1 \in {addNamedSymbol(w.elf, function, Null, 0)} |->
    With([symbol \in {Len(e1.symbols)} |->
    With([gotOffset \in {e1.fragments[got].bufferSize} |->
    With([e2 \in {addNamedSymbol(e1, function \o AtGot, got, gotOffset)} |->
    With([gotSymbol \in {Len(e2.symbols)} |->
    With([e3 \in {[e2 EXCEPT !.relocations =
                     Append(@, [NewRelocation EXCEPT !.section = got,
                                                     !.offset = gotOffset,
                                                     !.symbol = symbol])]} |->
    With([e4 \in {poke(e3, got, le64(0))} |->
    With([pltOffset \in {e4.fragments[plt].bufferSize} |->
    With([e5 \in {addNamedSymbol(e4, function \o AtPlt, plt, pltOffset)} |->
    With([pltSymbol \in {Len(e5.symbols)} |->
    With([e6 \in {addInternalRelocation(e5, pcRelative(plt, pltOffset + 2, gotSymbol))} |->
    With([e7 \in {poke(e6, plt, <<255, 37>> \o le32(0))} |->
    With([textOffset \in {e7.fragments[text].bufferSize} |->
    With([e8 \in {addInternalRelocation(e7, pcRelative(text, textOffset + 1, pltSymbol))} |->
    With([e9 \in {poke(e8, text, <<232>> \o le32(0))} |->
       [w EXCEPT !.elf = e9,
                 !.mce.sites = @ \o
                    <<[kind |-> "stub", of |-> inst, section |-> plt, at |-> pltOffset,
                       opcode |-> <<255, 37>>, symbol |-> gotSymbol,
                       dynamic |-> symbol, relocation |-> Len(e9.relocations)],
                      [kind |-> "call", of |-> inst, section |-> text, at |-> textOffset,
                       opcode |-> <<232>>, symbol |-> pltSymbol,
                       dynamic |-> symbol, relocation |-> Len(e9.relocations)]>>]
    ])])])])])])])])])])])])])])])])])])])

\* One turn of the instruction loop of _emitBlock
emitInstruction(w, ir, inst) ==
    With([i \in {ir.insts[inst]} |->
       CASE i.kind \in {"nop", "defineOffset"} -> w
         [] i.kind = "pushSave" -> emitPlain(w, emitPushPop(i.imm, 80, 255, 6))
         [] i.kind = "popRestore" -> emitPlain(w, emitPushPop(i.imm, 88, 143, 0))
         [] i.kind = "movMC" -> emitPlain(w, emitMovMC(ir, inst))
         [] i.kind = "movMR" ->
              emitPlain(w, encodeModRm(ir, i.results[1], ir.uses[i.operands[1]].ref, -1, 137))
         [] i.kind = "movRM" ->
              emitPlain(w, encodeModRm(ir, ir.uses[i.operands[1]].ref, i.results[1], -1, 139))
         [] i.kind = "xchgMR" ->
              emitPlain(w, encodeModRm(ir, i.results[1], i.results[2], -1, 135))
         [] i.kind = "negM" -> emitPlain(w, encodeModRm(ir, i.results[1], Null, 3, 247))
         [] i.kind = "addMR" ->
              emitPlain(w, encodeModRm(ir, i.results[1], ir.uses[i.operands[2]].ref, -1, 1))
         [] i.kind = "andMR" ->
              emitPlain(w, encodeModRm(ir, i.results[1], ir.uses[i.operands[2]].ref, -1, 33))
         [] i.kind = "call" -> emitCall(w, ir, inst)
         [] OTHER -> [w EXCEPT !.mce.failed = "unexpectedInstruction"]])

\* The instruction loop of _emitBlock over the list l
RECURSIVE emitInstructions(_, _, _, _)
emitInstructions(w, ir, l, k) ==
    IF k > Len(l) \/ w.mce.failed # "none" THEN w
    ELSE emitInstructions(emitInstruction(w, ir, l[k]), ir, l, k + 1)

\* emitJump with the relocation at the opcode instead of the disp32
emitJumpAtOpcode(w, kind, br, opcode, target) ==
    With([text \in {w.mce.textSection} |->
    With([at \in {w.elf.fragments[text].bufferSize} |->
    With([symbol \in {w.mce.bbSymbols[target]} |->
    With([e1 \in {addInternalRelocation(w.elf, pcRelative(text, at, symbol))} |->
       [w EXCEPT !.elf = poke(e1, text, opcode \o le32(0)),
                 !.mce.sites = Append(@, [kind |-> kind, of |-> br, section |-> text,
                                          at |-> at, opcode |-> opcode,
                                          symbol |-> symbol, dynamic |-> Null,
                                          relocation |-> Null])]])])])])

\* A jump: the relocation of its disp32, the opcode and four zero bytes
emitJump(w, kind, br, opcode, target) ==
    With([text \in {w.mce.textSection} |->
    With([at \in {w.elf.fragments[text].bufferSize} |->
    With([symbol \in {w.mce.bbSymbols[target]} |->
    With([e1 \in {addInternalRelocation(w.elf, pcRelative(text, at + Len(opcode), symbol))} |->
       [w EXCEPT !.elf = poke(e1, text, opcode \o le32(0)),
                 !.mce.sites = Append(@, [kind |-> kind, of |-> br, section |-> text,
                                          at |-> at, opcode |-> opcode,
                                          symbol |-> symbol, dynamic |-> Null,
                                          relocation |-> Null])]])])])])

\* The branch of _emitBlock
emitBranch(w, ir, bb) ==
    With([br \in {ir.blocks[bb].branch} |->
    With([branch \in {ir.branches[br]} |->
       CASE branch.kind = "ret" -> [w EXCEPT !.elf = poke(w.elf, w.mce.textSection, <<195>>)]
         [] branch.kind = "jmp" -> emitJump(w, "jmp", br, <<233>>, branch.targets[1])
         [] branch.kind = "jnz" ->
              With([operand \in {ir.uses[branch.operands[1]].ref} |->
              With([w1 \in {emitPlain(w, encodeModRm(ir, operand, operand, -1, 133))} |->
              IF w1.mce.failed # "none" THEN w1
              ELSE emitJump(emitJump(w1, "jnzIf", br, <<15, 133>>, branch.targets[1]),
                            "jnzElse", br, <<233>>, branch.targets[2])])])
         [] OTHER -> [w EXCEPT !.mce.failed = "unexpectedBranch"]])])

\* void MachineCodeEmitter::_emitBlock(bb, textSection)
emitBlock(w, ir, bb) ==
    With([w1 \in {emitInstructions(w, ir, ir.blocks[bb].insts, 1)} |->
       IF w1.mce.failed # "none" THEN w1 ELSE emitBranch(w1, ir, bb)])

\* The first block loop of run(): a symbol fn.bb<i> for every block
RECURSIVE addBlockSymbols(_, _, _)
addBlockSymbols(w, ir, bb) ==
    IF bb > Len(ir.blocks) THEN w
    ELSE With([e1 \in {addNamedSymbol(w.elf, FunctionName \o DotBb \o toString(bb - 1),
                                      w.mce.textSection, 0)} |->
            addBlockSymbols([w EXCEPT !.elf = e1,
                                      !.mce.bbSymbols = Append(@, Len(e1.symbols))],
                            ir, bb + 1)])

\* The second block loop of run(): the symbol's value, then the block
RECURSIVE emitBlocks(_, _, _)
emitBlocks(w, ir, bb) ==
    IF bb > Len(ir.blocks) \/ w.mce.failed # "none" THEN w
    ELSE With([start \in {w.elf.fragments[w.mce.textSection].bufferSize} |->
         With([w1 \in {[w EXCEPT !.elf.symbols[w.mce.bbSymbols[bb]].value = start,
                                 !.mce.blockStart = Append(@, start)]} |->
            emitBlocks(emitBlock(w1, ir, bb), ir, bb + 1)])])

\* A ByteSection named by string `name`, inserted into the Object
insertByteSection(elf, name) ==
    insertFragment(elf, [NewFragment("byteSection", 0) EXCEPT !.name = name])

\* void MachineCodeEmitter::run()
MachineCodeEmitterRun(elf, ir) ==
    With([e1 \in {addString(addString(addString(addString(elf, TextName), GotName),
                                     PltName), FunctionName)} |->
    With([textString \in {Len(e1.strings) - 3} |->
    With([e2 \in {insertByteSection(e1, textString)} |->
    With([textSection \in {Len(e2.fragments)} |->
    With([e3 \in {[addSymbol(e2, textString + 3) EXCEPT
                     !.symbols[Len(e2.symbols) + 1].section = textSection]} |->
    With([e4 \in {insertByteSection(e3, textString + 1)} |->
    With([e5 \in {insertByteSection(e4, textString + 2)} |->
    With([w \in {[elf |-> e5,
                 mce |-> [NewMachineCodeEmitter EXCEPT
                             !.ran = TRUE, !.textSection = textSection,
                             !.gotSection = Len(e4.fragments),
                             !.pltSection = Len(e5.fragments)]]} |->
       emitBlocks(addBlockSymbols(w, ir, 1), ir, 1)])])])])])])])])

\* ------------------------------------------------------------------------
\* InternalLinkPass (internal-link-pass.cpp)
\* ------------------------------------------------------------------------

\* put32 with the bytes of v stored most significant first
put32BigEndian(buffer, offset, v) ==
    With([bytes \in {le32(v)} |->
       [buffer EXCEPT ![offset + 1] = bytes[4], ![offset + 2] = bytes[3],
                      ![offset + 3] = bytes[2], ![offset + 4] = bytes[1]]])

\* void put32(uint8_t *p, uint32_t v) with p = buffer.data() + offset
put32(buffer, offset, v) ==
    With([bytes \in {le32(v)} |->
       [buffer EXCEPT ![offset + 1] = bytes[1], ![offset + 2] = bytes[2],
                      ![offset + 3] = bytes[3], ![offset + 4] = bytes[4]]])

\* relocation->addend.value_or(0)
addendOr0(relocation) ==
    IF relocation.addend = <<>> THEN 0 ELSE relocation.addend[1]

\* The body of the loop of InternalLinkPassImpl::run() for one relocation;
\* l is [elf, failed].  The pass stops at a failed assertion; a relocation
\* without a symbol, outside a ByteSection or outside the buffer of its
\* section is rejected in the same way.
linkRelocation(l, relocation) ==
    IF relocation.offset < 0 \/ relocation.section = Null
          \/ relocation.symbol = Null
    THEN [l EXCEPT !.failed = TRUE]
    ELSE With([section \in {l.elf.fragments[relocation.section]} |->
         With([symbol \in {l.elf.symbols[relocation.symbol]} |->
         IF section.virtualAddress = None \/ symbol.section = Null
         THEN [l EXCEPT !.failed = TRUE]
         ELSE IF l.elf.fragments[symbol.section].virtualAddress = None
                  \/ section.kind # "byteSection"
                  \/ relocation.offset + 4 > Len(section.buffer)
         THEN [l EXCEPT !.failed = TRUE]
         ELSE With([relocationAddress \in {section.virtualAddress + relocation.offset} |->
              With([symbolAddress \in {l.elf.fragments[symbol.section].virtualAddress
                                          + symbol.value} |->
              With([value \in {symbolAddress - relocationAddress + addendOr0(relocation)} |->
                 [l EXCEPT !.elf.fragments[relocation.section].buffer =
                               put32(@, relocation.offset, value)]])])])])])

\* The loop of InternalLinkPassImpl::run()
RECURSIVE linkRelocations(_, _)
linkRelocations(l, k) ==
    IF k > Len(l.elf.internalRelocations) \/ l.failed THEN l
    ELSE linkRelocations(linkRelocation(l, l.elf.internalRelocations[k]), k + 1)

\* void InternalLinkPassImpl::run()
InternalLinkPassRun(elf) == linkRelocations([elf |-> elf, failed |-> FALSE], 1)

\* ------------------------------------------------------------------------
\* FileEmitter (file-emitter.cpp).  The model follows the length of the
\* output buffer: every encode call appends as many bytes as its type has.
\* ------------------------------------------------------------------------

\* Bytes appended by encode8, encodeHalf, encodeWord and by encodeAddr,
\* encodeOff, encodeXword, encodeSxword
Bytes8 == 1
BytesHalf == 2
BytesWord == 4
BytesXword == 8

\* encodeChars(e, v): the characters before the first NUL
cStringLength(v) ==
    Cardinality({i \in 1..Len(v) : \A j \in 1..i : v[j] # 0})

\* The EHDR that run() encodes before the fragments
emitEhdrBytes ==
    9 * Bytes8 + 7 * Bytes8 + 2 * BytesHalf + BytesWord + 3 * BytesXword
        + BytesWord + 6 * BytesHalf

\* One program header of _emitPhdrs
emitPhdrBytes == 2 * BytesWord + 6 * BytesXword

\* void FileEmitterImpl::_emitPhdrs: one header per fragment and PT_DYNAMIC
emitPhdrs(elf) == Len(elf.fragments) * emitPhdrBytes + emitPhdrBytes

\* One section header of _emitShdrs
emitShdrBytes == 2 * BytesWord + 4 * BytesXword + 2 * BytesWord + 2 * BytesXword

\* void FileEmitterImpl::_emitShdrs: SHN_UNDEF and one header per section
emitShdrs(elf) ==
    emitShdrBytes
        + Cardinality({k \in 1..Len(elf.fragments) : isSection(elf.fragments[k])})
            * emitShdrBytes

\* void FileEmitterImpl::_emitDynamic: six tag/value pairs
emitDynamic(elf) == 6 * (BytesXword + BytesXword)

\* void FileEmitterImpl::_emitStringTable
\* (the NUL at offset 0, then for every string its characters and a NUL:
\* one pair <<k, i>> for byte i of the entry of string k)
emitStringTable(elf) ==
    Bytes8 + Cardinality(UNION {
        {<<k, i>> : i \in 1..(cStringLength(elf.strings[k].buffer) + Bytes8)} :
            k \in 1..Len(elf.strings)})

\* One entry of _emitSymbolTable
emitSymBytes == BytesWord + 2 * Bytes8 + BytesHalf + 2 * BytesXword

\* void FileEmitterImpl::_emitSymbolTable: the null symbol and every symbol
emitSymbolTable(elf) == emitSymBytes + Len(elf.symbols) * emitSymBytes

\* void FileEmitterImpl::_emitRela: stops at the first relocation whose offset
\* or section is not set (the assertions of the loop)
RECURSIVE emitRela(_, _, _)
emitRela(elf, k, n) ==
    IF k > Len(elf.relocations) THEN [failed |-> "none", n |-> n]
    ELSE IF elf.relocations[k].offset < 0 \/ elf.relocations[k].section = Null
    THEN [failed |-> "relocation", n |-> n]
    ELSE emitRela(elf, k + 1, n + 3 * BytesXword)

\* void FileEmitterImpl::_emitHash: nbucket, nchain, the buckets, the chains
emitHash(hash) ==
    BytesWord + BytesWord + Len(hash.buckets) * BytesWord + Len(hash.chains) * BytesWord

\* The bytes run() appends for fragment k
emitFragment(elf, k) ==
    With([fragment \in {elf.fragments[k]} |->
       CASE fragment.kind = "phdrsFragment" -> [failed |-> "none", n |-> emitPhdrs(elf)]
         [] fragment.kind = "shdrsFragment" -> [failed |-> "none", n |-> emitShdrs(elf)]
         [] fragment.kind = "dynamicSection" -> [failed |-> "none", n |-> emitDynamic(elf)]
         [] fragment.kind = "stringTableSection" ->
              [failed |-> "none", n |-> emitStringTable(elf)]
         [] fragment.kind = "symbolTableSection" ->
              [failed |-> "none", n |-> emitSymbolTable(elf)]
         [] fragment.kind = "relocationSection" -> emitRela(elf, 1, 0)
         [] fragment.kind = "hashSection" -> [failed |-> "none", n |-> emitHash(fragment)]
         [] fragment.kind = "byteSection" -> [failed |-> "none", n |-> fragment.bufferSize]])

\* One iteration of the fragment loop of FileEmitterImpl::run(): the padding
\* to 8 bytes, the assertion on the file offset and the bytes of fragment k
emitPadded(elf, k, fe) ==
    With([padded \in {((fe.size + 7) \div 8) * 8} |->
    With([fe1 \in {[fe EXCEPT !.size = padded, !.at = Append(@, padded)]} |->
    IF elf.fragments[k].fileOffset # padded
    THEN [fe1 EXCEPT !.failed = "fileOffset"]
    ELSE With([r \in {emitFragment(elf, k)} |->
            [fe1 EXCEPT !.size = @ + r.n, !.wrote = Append(@, r.n),
                        !.failed = r.failed]])])])

\* The fragment loop of FileEmitterImpl::run()
RECURSIVE emitFragments(_, _, _)
emitFragments(elf, k, fe) ==
    IF k > Len(elf.fragments) \/ fe.failed # "none" THEN fe
    ELSE emitFragments(elf, k + 1, emitPadded(elf, k, fe))

\* void FileEmitterImpl::run()
FileEmitterRun(elf) ==
    emitFragments(elf, 1, [NewFileEmitter EXCEPT !.ran = TRUE, !.size = emitEhdrBytes])

\* ------------------------------------------------------------------------
\* SpecLayout: an Object is filled by its clients (strings, symbols,
\* relocations, byte sections), CreateHeadersPass adds the header fragments
\* and LayoutPass runs, any number of times up to MaxLayoutRuns.
\* ------------------------------------------------------------------------

NoLayout == [valid |-> FALSE]

SetELF(elf) ==
    /\ fragments' = elf.fragments /\ strings' = elf.strings
    /\ symbols' = elf.symbols /\ relocations' = elf.relocations
    /\ internalRelocations' = elf.internalRelocations
    /\ numSections' = elf.numSections

InitLayout ==
    /\ IRInitEmpty
    /\ pc = [phase |-> "elf", block |-> 0]
    /\ fragments = <<>> /\ strings = <<>> /\ symbols = <<>> /\ relocations = <<>>
    /\ internalRelocations = <<>> /\ fileEmitter = NewFileEmitter
    /\ mcEmitter = NewMachineCodeEmitter
    /\ numSections = 0
    /\ layoutRuns = 0 /\ sinceLayout = 0 /\ prevLayout = NoLayout

\* Any change of the Object: no longer "twice in a row".
Mutated ==
    /\ sinceLayout' = 1
    /\ prevLayout' = NoLayout
    /\ UNCHANGED <<irVars, layoutRuns, fileEmitter, mcEmitter>>

AddString(buffer) ==
    /\ pc.phase = "elf"
    /\ Cardinality({i \in 1..Len(strings) : strings[i].buffer # DynamicName}) < MaxStrings
    /\ SetELF(addString(ELF, buffer))
    /\ Mutated

AddSymbol(name) ==
    /\ pc.phase = "elf"
    /\ Len(symbols) < MaxSymbols
    /\ SetELF(addSymbol(ELF, name))
    /\ Mutated

AddRelocation ==
    /\ pc.phase = "elf"
    /\ Len(relocations) < MaxRelocations
    /\ SetELF(addRelocation(ELF))
    /\ Mutated

InsertByteSection(size) ==
    /\ pc.phase = "elf"
    /\ Cardinality({i \in 1..Len(fragments) : fragments[i].kind = "byteSection"})
            < MaxByteSections
    /\ SetELF(insertFragment(ELF, NewFragment("byteSection", size)))
    /\ Mutated

CreateHeaders ==
    /\ pc.phase = "elf"
    /\ \A i \in 1..Len(fragments) : fragments[i].kind = "byteSection"
    /\ SetELF(CreateHeadersRun(ELF))
    /\ Mutated

Layout(uninit) ==
    /\ pc.phase = "elf"
    /\ layoutRuns < MaxLayoutRuns
    /\ SetELF(LayoutPassRun(ELF, uninit))
    /\ layoutRuns' = layoutRuns + 1
    /\ sinceLayout' = 0
    /\ prevLayout' = IF layoutRuns >= 1 /\ sinceLayout = 0
                      THEN [valid |-> TRUE, elf |-> ELF]
                      ELSE NoLayout
    /\ UNCHANGED <<irVars, fileEmitter, mcEmitter>>

\* The state right after a LayoutPass::run().
LaidOut == layoutRuns >= 1 /\ sinceLayout = 0

HasHashSection == \E i \in 1..Len(fragments) : fragments[i].kind = "hashSection"

\* FileEmitter::create(&elf)->run(), once the headers exist and the layout
\* is that of the Object as it is; the client is done with the Object then.
FileEmit ==
    /\ pc.phase = "elf"
    /\ HasHashSection /\ LaidOut
    /\ fileEmitter' = FileEmitterRun(ELF)
    /\ pc' = [phase |-> "written", block |-> 0]
    /\ UNCHANGED <<functionVars, objectVars, mcEmitter, layoutRuns, sinceLayout,
                   prevLayout>>

NextLayout ==
    \/ \E buffer \in Names : AddString(buffer)
    \/ \E name \in 1..Len(strings) : AddSymbol(name)
    \/ AddRelocation
    \/ \E size \in BufferSizes : InsertByteSection(size)
    \/ CreateHeaders
    \/ \E uninit \in UninitSizes : Layout(uninit)
    \/ FileEmit

SpecLayout == InitLayout /\ [][NextLayout]_vars

\* ---- C8 ----
\* C8: after LayoutPass::run() every fragment has fileOffset % 8 = 0 and
\* (virtualAddress - fileOffset) % 0x1000 = 0, and the file ranges
\* [fileOffset, fileOffset + computedSize) of the fragments are pairwise
\* disjoint and increase in insertion order.
C8_FileLayout ==
    LaidOut =>
        /\ \A i \in 1..Len(fragments) :
              /\ fragments[i].fileOffset % 8 = 0
              /\ (fragments[i].virtualAddress - fragments[i].fileOffset) % PageSize = 0
        /\ \A i, j \in 1..Len(fragments) :
              i < j => fragments[i].fileOffset + fragments[i].computedSize
                          <= fragments[j].fileOffset

\* ---- C9 ----
\* C9: after LayoutPass::run() the virtual address ranges
\* [virtualAddress, virtualAddress + computedSize) of distinct fragments are
\* disjoint and their start addresses lie in different 4 KiB pages.
C9_OwnPage ==
    LaidOut =>
        \A i, j \in 1..Len(fragments) :
            i # j =>
                /\ fragments[i].virtualAddress \div PageSize
                      # fragments[j].virtualAddress \div PageSize
                /\ \/ fragments[i].virtualAddress + fragments[i].computedSize
                          <= fragments[j].virtualAddress
                   \/ fragments[j].virtualAddress + fragments[j].computedSize
                          <= fragments[i].virtualAddress

\* ---- C10 ----
\* C10: a LayoutPass::run() that directly follows another one leaves the
\* metadata of every fragment, string, symbol and relocation, and the hash
\* buckets and chains, as the first run left them.
C10_LayoutIdempotent ==
    (prevLayout.valid /\ sinceLayout = 0) => ELF = prevLayout.elf

\* ------------------------------------------------------------------------
\* Spec: the compiler pipeline of the driver (test-elf.cpp).  A Function is
\* built through the IR's construction interface, block by block; then
\* LowerCodePass runs on every block and AllocateRegistersPass on the function.
\* ------------------------------------------------------------------------

\* Bounds of the functions the model builds
MaxBlocks == 2
MaxArgs == 2
MaxPhis == 1
MaxInsts == 2
MaxCallOps == 2
MaxLocals == 3
MaxFunctions == 2

Types == {"int32", "pointer"}
BinaryMathOpcodes == {"add", "bitwiseAnd"}

\* The block under construction, and whether its branch is set.
cur == Len(blocks)
Open == pc.phase = "build" /\ cur > 0 /\ blocks[cur].branch = Null
\* Room for one more LocalValue (a phi or an instruction result)
Room == Len(vals) < MaxLocals
Closed == pc.phase = "build" /\ cur > 0 /\ blocks[cur].branch # Null

\* The LocalValues produced in block b (by a phi or an instruction).
LocalsOf(b) ==
    {v \in 1..Len(vals) : vals[v].valueKind = "local" /\ vals[v].defBlock = b}

\* Sequences of at most n elements of S
RECURSIVE SeqsUpTo(_, _)
SeqsUpTo(S, n) ==
    IF n = 0 THEN {<<>>}
    ELSE With([shorter \in {SeqsUpTo(S, n - 1)} |->
            shorter \cup {Append(q, x) : q \in {t \in shorter : Len(t) = n - 1}, x \in S}])

Init ==
    /\ IRInitEmpty
    /\ ElfInitEmpty
    /\ pc = [phase |-> "build", block |-> 0]

Built(ir) == SetIR(ir) /\ UNCHANGED <<pc, lastOp, allocator, elfVars>>

\* f0.addBlock(std::make_unique<BasicBlock>())
AddBlock ==
    /\ pc.phase = "build"
    /\ cur = 0 \/ Closed
    /\ cur < MaxBlocks
    /\ Built(addBlock(IR))

\* b0->attachPhi(std::make_unique<ArgumentPhi>()); value.setNew<LocalValue>()
AttachArgumentPhi ==
    /\ Open /\ cur = 1
    /\ blocks[cur].insts = <<>>
    /\ Len(blocks[cur].phis) < MaxArgs /\ Room
    /\ Built(attachPhi(IR, cur, "argument", "pointer"))

\* b1->attachPhi(std::make_unique<DataFlowPhi>()); DataFlowEdge::attach(...,
\* src->source, phi->sink); edge->alias = v; value.setNew<LocalValue>()
AttachDataFlowPhi(src, v) ==
    /\ Open /\ cur > 1
    /\ blocks[cur].insts = <<>>
    /\ Len(blocks[cur].phis) < MaxPhis /\ Room
    /\ branches[blocks[src].branch].kind \in {"unconditional", "conditional"}
    /\ LET ir1 == attachPhi(IR, cur, "dataFlow", vals[v].type)
       IN Built(attachEdge(ir1, src, Len(ir1.phis), v))

InsertLoadConst(type) ==
    /\ Open /\ Len(insts) < MaxInsts /\ Room
    /\ Built(insertNewInstruction(IR, cur, "loadConst", 4, <<>>, type))

InsertLoadOffset(v) ==
    /\ Open /\ Len(insts) < MaxInsts /\ Room
    /\ Built(insertNewInstruction(IR, cur, "loadOffset", 8, <<v>>, "int32"))

InsertUnaryMath(v) ==
    /\ Open /\ Len(insts) < MaxInsts /\ Room
    /\ Built(insertNewInstruction(IR, cur, "unaryMath", "negate", <<v>>, vals[v].type))

InsertBinaryMath(opcode, v, w) ==
    /\ Open /\ Len(insts) < MaxInsts /\ Room
    /\ Built(insertNewInstruction(IR, cur, "binaryMath", opcode, <<v, w>>, vals[v].type))

InsertInvoke(ops) ==
    /\ Open /\ Len(insts) < MaxInsts /\ Room
    /\ Built(insertNewInstruction(IR, cur, "invoke", "f", ops, "int32"))

\* setBranch(std::make_unique<FunctionReturnBranch>(n)); operand(i) = ops[i]
SetFunctionReturn(ops) ==
    /\ Open
    /\ LET ir1 == newBranch(IR, "functionReturn", ops, <<>>)
       IN Built(setBranch(ir1, cur, Len(ir1.branches)))

\* setBranch(std::make_unique<UnconditionalBranch>(next block))
SetUnconditional ==
    /\ Open /\ cur < MaxBlocks
    /\ LET ir1 == newBranch(IR, "unconditional", <<>>, <<cur + 1>>)
       IN Built(setBranch(ir1, cur, Len(ir1.branches)))

\* setBranch(std::make_unique<ConditionalBranch>(next block, first block));
\* operand = v
SetConditional(v) ==
    /\ Open /\ cur < MaxBlocks
    /\ LET ir1 == newBranch(IR, "conditional", <<v>>, <<cur + 1, 1>>)
       IN Built(setBranch(ir1, cur, Len(ir1.branches)))

\* Every branch target exists: the function is complete.
Complete ==
    /\ Closed
    /\ \A b \in 1..Len(blocks) :
          \A k \in 1..Len(branches[blocks[b].branch].targets) :
              branches[blocks[b].branch].targets[k] <= Len(blocks)

\* LowerCodePass::create(bb)->run(), for the blocks in order
LowerBlock(b) ==
    /\ \/ Complete /\ b = 1
       \/ pc.phase = "lower" /\ b = pc.block
    /\ SetIR(LowerCodeRun(IR, b))
    /\ pc' = IF b < Len(blocks) THEN [phase |-> "lower", block |-> b + 1]
             ELSE [phase |-> "lowered", block |-> 0]
    /\ UNCHANGED <<lastOp, allocator, elfVars>>

\* The position of run() after a step: the names of the loops, or "failed".
afterCollect(ra, b) ==
    IF ra.fail # "none" THEN [phase |-> "failed", block |-> 0]
    ELSE IF b < Len(blocks) THEN [phase |-> "collect", block |-> b + 1]
    ELSE IF ra.restrictedQueue # <<>> \/ ra.unrestrictedQueue # <<>>
    THEN [phase |-> "allocate", block |-> 0]
    ELSE [phase |-> "establish", block |-> 1]

afterAllocate(ra) ==
    IF ra.fail # "none" THEN [phase |-> "failed", block |-> 0]
    ELSE IF ra.restrictedQueue # <<>> \/ ra.unrestrictedQueue # <<>>
    THEN [phase |-> "allocate", block |-> 0]
    ELSE [phase |-> "establish", block |-> 1]

\* The first loop of run(): a LiveCompound for every phi of every block
RECURSIVE newPhiCompounds(_, _, _)
newPhiCompounds(ir, ra, p) ==
    IF p > Len(ir.phis) THEN ra
    ELSE With([ra1 \in {newCompound(ra, 0)} |->
            newPhiCompounds(ir, [ra1 EXCEPT !.phiCompounds =
                                     Append(@, Len(ra1.compounds))], p + 1)])

\* AllocateRegistersPass::create(&f0)->run(), up to the first
\* _collectBlockIntervals
RunAllocator ==
    /\ pc.phase = "lowered"
    /\ allocator' = newPhiCompounds(IR, allocator, 1)
    /\ pc' = [phase |-> "collect", block |-> 1]
    /\ UNCHANGED <<vals, uses, insts, blocks, branches, phis, edges, rewrites,
                   lastOp, elfVars>>

\* _collectBlockIntervals(bb), for the blocks in order
CollectBlockIntervals(b) ==
    /\ pc.phase = "collect" /\ b = pc.block
    /\ \E s \in {collectBlockIntervals(IR, allocator, b)} :
          /\ SetIR(s.ir)
          /\ allocator' = s.ra
          /\ pc' = afterCollect(s.ra, b)
    /\ UNCHANGED <<lastOp, elfVars>>

\* One turn of the loop over _restrictedQueue
AllocateRestricted ==
    /\ pc.phase = "allocate"
    /\ allocator.restrictedQueue # <<>>
    /\ \E s \in {allocateCompound(IR,
                    [allocator EXCEPT !.restrictedQueue = Tail(@)],
                    Head(allocator.restrictedQueue))} :
          /\ SetIR(s.ir)
          /\ allocator' = s.ra
          /\ pc' = afterAllocate(s.ra)
    /\ UNCHANGED <<lastOp, elfVars>>

\* One turn of the loop over _unrestrictedQueue
AllocateUnrestricted ==
    /\ pc.phase = "allocate"
    /\ allocator.restrictedQueue = <<>>
    /\ allocator.unrestrictedQueue # <<>>
    /\ \E s \in {allocateCompound(IR,
                    [allocator EXCEPT !.unrestrictedQueue = Tail(@)],
                    Head(allocator.unrestrictedQueue))} :
          /\ SetIR(s.ir)
          /\ allocator' = s.ra
          /\ pc' = afterAllocate(s.ra)
    /\ UNCHANGED <<lastOp, elfVars>>

\* _establishAllocation(bb), for the blocks in order; run() returns after the
\* last one.
EstablishAllocation(b) ==
    /\ pc.phase = "establish" /\ b = pc.block
    /\ \E s \in {establishAllocation(IR, allocator, b)} :
          /\ SetIR(s.ir)
          /\ allocator' = s.ra
          /\ pc' = IF s.ra.fail # "none" THEN [phase |-> "failed", block |-> 0]
                   ELSE IF b < Len(blocks)
                   THEN [phase |-> "establish", block |-> b + 1]
                   ELSE [phase |-> "allocated", block |-> 0]
    /\ UNCHANGED <<lastOp, elfVars>>

Build ==
    \/ AddBlock
    \/ AttachArgumentPhi
    \/ \E src \in 1..(cur - 1) : \E v \in LocalsOf(src) : AttachDataFlowPhi(src, v)
    \/ \E type \in Types : InsertLoadConst(type)
    \/ \E v \in LocalsOf(cur) : InsertLoadOffset(v)
    \/ \E v \in LocalsOf(cur) : InsertUnaryMath(v)
    \/ \E opcode \in BinaryMathOpcodes : \E v, w \in LocalsOf(cur) :
          InsertBinaryMath(opcode, v, w)
    \/ \E ops \in SeqsUpTo(LocalsOf(cur), MaxCallOps) : InsertInvoke(ops)
    \/ \E ops \in SeqsUpTo(LocalsOf(cur), 1) : SetFunctionReturn(ops)
    \/ SetUnconditional
    \/ \E v \in LocalsOf(cur) : SetConditional(v)

\* The number of MachineCodeEmitters that have run on the Object
emitterRuns == mcEmitter.runs

\* MachineCodeEmitter mce{&f0, &elf}; mce.run(), for the function built and,
\* up to MaxFunctions times, for a function of the same content on the same
\* Object.  A failed assertion ends the program.
EmitMachineCode ==
    /\ \/ pc.phase = "allocated"
       \/ pc.phase = "emitted" /\ emitterRuns < MaxFunctions
    /\ \E w \in {MachineCodeEmitterRun(ELF, IR)} :
          /\ SetELF(w.elf)
          /\ mcEmitter' = [w.mce EXCEPT !.sites = mcEmitter.sites \o @,
                                        !.runs = mcEmitter.runs + 1]
          /\ pc' = IF w.mce.failed # "none" THEN [phase |-> "aborted", block |-> 0]
                   ELSE [phase |-> "emitted", block |-> 0]
    /\ UNCHANGED <<functionVars, fileEmitter, layoutRuns, sinceLayout, prevLayout>>

\* headers_pass->run()
RunHeadersPass ==
    /\ pc.phase = "emitted"
    /\ SetELF(CreateHeadersRun(ELF))
    /\ pc' = [phase |-> "headers", block |-> 0]
    /\ UNCHANGED <<functionVars, fileEmitter, mcEmitter, layoutRuns, sinceLayout,
                   prevLayout>>

\* layout_pass->run()
RunLayoutPass(uninit) ==
    /\ pc.phase = "headers"
    /\ SetELF(LayoutPassRun(ELF, uninit))
    /\ layoutRuns' = layoutRuns + 1
    /\ pc' = [phase |-> "laidOut", block |-> 0]
    /\ UNCHANGED <<functionVars, fileEmitter, mcEmitter, sinceLayout, prevLayout>>

\* link_pass->run()
RunLinkPass ==
    /\ pc.phase = "laidOut"
    /\ \E l \in {InternalLinkPassRun(ELF)} :
          /\ SetELF(l.elf)
          /\ pc' = IF l.failed THEN [phase |-> "aborted", block |-> 0]
                   ELSE [phase |-> "linked", block |-> 0]
    /\ UNCHANGED <<functionVars, fileEmitter, mcEmitter, layoutRuns, sinceLayout,
                   prevLayout>>

\* file_emitter->run()
RunFileEmitter ==
    /\ pc.phase = "linked"
    /\ fileEmitter' = FileEmitterRun(ELF)
    /\ pc' = [phase |-> "written", block |-> 0]
    /\ UNCHANGED <<functionVars, objectVars, mcEmitter, layoutRuns, sinceLayout,
                   prevLayout>>

Next ==
    \/ Build
    \/ \E b \in 1..Len(blocks) : LowerBlock(b)
    \/ RunAllocator
    \/ \E b \in 1..Len(blocks) : CollectBlockIntervals(b)
    \/ AllocateRestricted
    \/ AllocateUnrestricted
    \/ \E b \in 1..Len(blocks) : EstablishAllocation(b)
    \/ EmitMachineCode
    \/ RunHeadersPass
    \/ \E uninit \in UninitSizes : RunLayoutPass(uninit)
    \/ RunLinkPass
    \/ RunFileEmitter

Spec == Init /\ [][Next]_vars

\* ------------------------------------------------------------------------
\* Lowering claims
\* ------------------------------------------------------------------------

GenericInstKinds == {"loadConst", "loadOffset", "unaryMath", "binaryMath", "invoke"}
GenericBranchKinds == {"functionReturn", "unconditional", "conditional"}
X86InstKinds == {"movMC", "defineOffset", "movRM", "negM", "addMR", "andMR", "call"}
X86BranchKinds == {"ret", "jmp", "jnz"}

\* The value that replaced v in the lowering (Null when v was not replaced).
Replacement(v) ==
    IF \E k \in 1..Len(rewrites) : rewrites[k].old = v
    THEN rewrites[CHOOSE k \in 1..Len(rewrites) : rewrites[k].old = v].new
    ELSE Null

\* The j-th generic instruction of block b and the instructions from position p
\* of the lowered block correspond, and so do all later ones.
RECURSIVE Corresponds(_, _, _)
Corresponds(b, j, p) ==
    With([g \in {blocks[b].genericInsts} |->
        With([l \in {blocks[b].insts} |->
       IF j > Len(g) THEN p = Len(l) + 1
       ELSE IF insts[g[j]].kind = "loadOffset"
       THEN /\ p + 1 <= Len(l)
            /\ insts[l[p]].kind = "defineOffset"
            /\ insts[l[p + 1]].kind = "movRM"
            /\ uses[insts[l[p + 1]].operands[1]].ref = insts[l[p]].results[1]
            /\ insts[l[p + 1]].results[1] = Replacement(insts[g[j]].results[1])
            /\ Corresponds(b, j + 1, p + 2)
       ELSE /\ p <= Len(l)
            /\ insts[l[p]].kind \in X86InstKinds \ {"defineOffset", "movRM"}
            /\ insts[l[p]].results[1] = Replacement(insts[g[j]].results[1])
            /\ Corresponds(b, j + 1, p + 1)])])

JustLowered(b) == pc.phase \in {"lower", "lowered"} /\ blocks[b].lowered

\* C4: after LowerCodePass::run() on a block, every instruction and the branch
\* of the block have x86 kinds, the lowered instructions stand in the order of
\* the generic ones they replace, and each LoadOffset has become a DefineOffset
\* immediately followed by a MovRM at its position.
C4_LoweredBlockIsX86 ==
    \A b \in 1..Len(blocks) : JustLowered(b) =>
        /\ \A p \in 1..Len(blocks[b].insts) :
              /\ insts[blocks[b].insts[p]].kind \in X86InstKinds
              /\ insts[blocks[b].insts[p]].kind \notin GenericInstKinds
              /\ insts[blocks[b].insts[p]].bb = b
        /\ branches[blocks[b].branch].kind \in X86BranchKinds
        /\ branches[blocks[b].branch].kind \notin GenericBranchKinds
        /\ Corresponds(b, 1, 1)

\* A block with a LoadOffset followed by another instruction has been lowered.
C4_Witness ==
    \E b \in 1..Len(blocks) :
        /\ JustLowered(b)
        /\ Len(blocks[b].genericInsts) = 2
        /\ insts[blocks[b].genericInsts[1]].kind = "loadOffset"
        /\ branches[blocks[b].genericBranch].kind = "conditional"

\* The ValueUses of the instructions, branches and data-flow edges of the function
SurvivingUses ==
    UNION {Range(insts[i].operands) :
             i \in UNION {Range(blocks[b].insts) : b \in 1..Len(blocks)}}
    \cup UNION {Range(branches[blocks[b].branch].operands) :
                  b \in {c \in 1..Len(blocks) : blocks[c].branch # Null}}
    \cup {edges[e].alias : e \in 1..Len(edges)}

AllLowered ==
    pc.phase # "build" /\ \A b \in 1..Len(blocks) : blocks[b].lowered

\* C5: lowering preserves the def-use graph.  Every generic value of a lowered
\* block was replaced; every use that referred to it before the rewrite refers
\* to its replacement right after, and its use-list is empty; once every block
\* is lowered no surviving use refers to a generic LocalValue.
C5_LoweringPreservesDefUse ==
    /\ \A k \in 1..Len(rewrites) :
          /\ \A n \in 1..Len(rewrites[k].usesBefore) :
                rewrites[k].refsAfter[n] = rewrites[k].new
          /\ rewrites[k].oldUsesAfter = <<>>
          /\ vals[rewrites[k].new].valueKind = "registerMode"
    /\ \A v \in 1..Len(vals) :
          (vals[v].valueKind = "local" /\ blocks[vals[v].defBlock].lowered) =>
              /\ Replacement(v) # Null
              /\ vals[v].useList = <<>>
    /\ AllLowered =>
          \A u \in SurvivingUses :
              uses[u].ref # Null => vals[uses[u].ref].valueKind # "local"

\* A generic value with two uses, one of them a branch operand, was replaced.
C5_Witness ==
    /\ AllLowered
    /\ \E k \in 1..Len(rewrites) :
          /\ Len(rewrites[k].usesBefore) >= 2
          /\ \E n \in 1..Len(rewrites[k].usesBefore) :
                uses[rewrites[k].usesBefore[n]].inst = Null
          /\ insts[1].kind = "binaryMath"
          /\ rewrites[k].old = insts[1].results[1]

\* ------------------------------------------------------------------------
\* Register allocation claims
\* ------------------------------------------------------------------------

\* C1: once run() is past the collection of the intervals and has not thrown,
\* any two distinct LiveIntervals that have a register, differ in their
\* equivalencePointer and overlap as closed ranges [originPc, finalPc] lie in
\* different registers (two such intervals in the same register do not
\* overlap). This holds after every _allocateCompound and after
\* every _establishAllocation, which rewrites the end points of the intervals
\* around the moves.
C1_NoSharedRegister ==
    pc.phase \in {"allocate", "establish", "allocated"} =>
        \A a, b \in 1..Len(allocator.intervals) :
            (/\ a # b
             /\ registerOf(allocator, a) >= 0
             /\ registerOf(allocator, b) >= 0
             /\ allocator.intervals[a].equivalencePointer
                  # allocator.intervals[b].equivalencePointer
             /\ registerOf(allocator, a) = registerOf(allocator, b))
            => ~overlapsRange(IR, allocator.intervals[a],
                              allocator.intervals[b].originPc,
                              allocator.intervals[b].finalPc)

\* run() has returned, a register move was emitted (so end points were
\* rewritten), and two overlapping intervals that are not equivalent exist.
C1_Witness ==
    /\ pc.phase = "allocated"
    /\ allocator.numRegisterMoves >= 1
    /\ \E a, b \in 1..Len(allocator.intervals) :
         /\ a # b
         /\ allocator.intervals[a].associatedValue # Null
         /\ allocator.intervals[b].associatedValue # Null
         /\ allocator.intervals[a].equivalencePointer
              # allocator.intervals[b].equivalencePointer
         /\ overlapsRange(IR, allocator.intervals[a],
                          allocator.intervals[b].originPc,
                          allocator.intervals[b].finalPc)
         /\ registerOf(allocator, a) # registerOf(allocator, b)

\* C2: after the allocation loops every LiveCompound has an allocatedRegister
\* in 0..15 whose bit is set in its possibleRegisters, the register is not RSP
\* (index 4), and every Value associated with an interval of the compound
\* carries exactly that register.
C2_AllocatedRegisterPossible ==
    pc.phase \in {"establish", "allocated"} =>
        \A c \in 1..Len(allocator.compounds) :
            LET r == allocator.compounds[c].allocatedRegister
            IN /\ r \in 0..15
               /\ HasBit(allocator.compounds[c].possibleRegisters, r)
               /\ r # 4
               /\ \A n \in 1..Len(allocator.compounds[c].intervals) :
                    LET v == allocator.intervals[
                                 allocator.compounds[c].intervals[n]].associatedValue
                    IN v # Null => vals[v].reg = r

\* run() has returned with a pinned compound, a freely allocated compound and
\* a compound of two intervals that both carry values.
C2_Witness ==
    /\ pc.phase = "allocated"
    /\ \E c \in 1..Len(allocator.compounds) :
         allocator.compounds[c].possibleRegisters = 1
    /\ \E c \in 1..Len(allocator.compounds) :
         /\ allocator.compounds[c].possibleRegisters = gprMask
         /\ Len(allocator.compounds[c].intervals) = 2
         /\ \A n \in 1..2 :
              allocator.intervals[allocator.compounds[c].intervals[n]]
                  .associatedValue # Null

\* C3: for an entry block with k <= 6 ArgumentPhis the allocator does not
\* throw, the value of the i-th ArgumentPhi is in the i-th register of RDI,
\* RSI, RDX, RCX, R8, R9, and the operand of a Ret with one operand is in RAX.
C3_ArgumentsAndReturn ==
    (Len(blocks) >= 1 /\ Len(blocks[1].phis) <= 6) =>
        /\ pc.phase # "failed"
        /\ pc.phase = "allocated" =>
             /\ \A i \in 1..Len(blocks[1].phis) :
                  LET r == vals[phis[blocks[1].phis[i]].value].reg
                  IN r \in 0..15 /\ Pow2(r) = operandRegs[i]
             /\ \A b \in 1..Len(blocks) :
                  LET br == branches[blocks[b].branch]
                  IN (br.kind = "ret" /\ Len(br.operands) = 1) =>
                        LET v == uses[br.operands[1]].ref
                        IN v # Null /\ Pow2(vals[v].reg) = resultRegs[1]

\* ------------------------------------------------------------------------
\* ELF emission claims
\* ------------------------------------------------------------------------

\* ---- C11 ----
\* C11: after LayoutPass::run() the computedSize of the HashSection is
\* (2 + bucketCount + symbolCount + 1) * 4 with bucketCount =
\* ceil2Power(symbolCount), which is the number of bytes
\* FileEmitter::_emitHash writes for the section.
C11_HashSectionSize ==
    LaidOut =>
        \A k \in 1..Len(fragments) :
            fragments[k].kind = "hashSection" =>
                LET symbolCount == Len(symbols)
                    bucketCount == ceil2Power(symbolCount)
                    expected == (2 + bucketCount + symbolCount + 1) * 4
                IN /\ emitHash(fragments[k]) = expected
                   /\ fragments[k].computedSize = expected

\* ---- C12 ----
\* C12: when FileEmitter::run() runs after CreateHeaders and Layout, the
\* buffer length after the padding equals the fileOffset of every fragment,
\* wherever it was inserted (the assertion never fails): the EHDR is 64 bytes
\* and the bytes emitted for each fragment are its computedSize.
C12_FileOffsetsMatch ==
    fileEmitter.ran =>
        /\ emitEhdrBytes = EhdrSize
        /\ fileEmitter.failed # "fileOffset"
        /\ \A k \in 1..Len(fileEmitter.wrote) :
              (k < Len(fileEmitter.wrote) \/ fileEmitter.failed = "none")
                  => fileEmitter.wrote[k] = fragments[k].computedSize

\* ---- C13 ----
\* The virtual address of symbol s and of internal relocation r
symbolAddressOf(s) == fragments[symbols[s].section].virtualAddress + symbols[s].value
relocationAddressOf(r) == fragments[r.section].virtualAddress + r.offset

\* Byte i (from 1) of fragment f is inside the field of an internal relocation
InLinkedField(f, i) ==
    \E k \in 1..Len(internalRelocations) :
        /\ internalRelocations[k].section = f
        /\ i > internalRelocations[k].offset
        /\ i <= internalRelocations[k].offset + 4

\* C13: InternalLinkPass::run() writes, for every internal relocation r, the
\* 32-bit little-endian value symbolAddress - relocationAddress + addend into
\* bytes r.offset .. r.offset + 3 of the buffer of r.section, and changes no
\* other byte of any section, no buffer length and no external relocation.
C13_InternalLinkWrites ==
    [][(pc.phase = "laidOut" /\ pc'.phase = "linked") =>
          /\ relocations' = relocations
          /\ internalRelocations' = internalRelocations
          /\ symbols' = symbols
          /\ Len(fragments') = Len(fragments)
          /\ \A f \in 1..Len(fragments) :
                /\ Len(fragments'[f].buffer) = Len(fragments[f].buffer)
                /\ fragments'[f].bufferSize = fragments[f].bufferSize
                /\ fragments'[f].virtualAddress = fragments[f].virtualAddress
                /\ \A i \in 1..Len(fragments[f].buffer) :
                      InLinkedField(f, i)
                          \/ fragments'[f].buffer[i] = fragments[f].buffer[i]
          /\ \A k \in 1..Len(internalRelocations) :
                read32(fragments'[internalRelocations[k].section].buffer,
                       internalRelocations[k].offset)
                    = symbolAddressOf(internalRelocations[k].symbol)
                        - relocationAddressOf(internalRelocations[k])
                        + (IF internalRelocations[k].addend = <<>> THEN 0
                           ELSE internalRelocations[k].addend[1])
      ]_vars

\* The link pass has resolved a forward and a backward reference
C13_Witness ==
    /\ pc.phase = "linked"
    /\ \E k \in 1..Len(internalRelocations) :
          read32(fragments[internalRelocations[k].section].buffer,
                 internalRelocations[k].offset) > 255
    /\ \E k \in 1..Len(internalRelocations) :
          read32(fragments[internalRelocations[k].section].buffer,
                 internalRelocations[k].offset) < 0

\* ---- C14 ----
\* The Object has been laid out and linked
Linked == pc.phase \in {"linked", "written"}

\* The address the disp32 of site j refers to: the address of the byte after
\* the field plus the stored displacement
SiteRefersTo(j) ==
    With([site \in {mcEmitter.sites[j]} |->
       fragments[site.section].virtualAddress + site.at + Len(site.opcode) + 4
           + read32(fragments[site.section].buffer, site.at + Len(site.opcode))])

\* The address site j has to refer to: the stub emitted with a call, the
\* .got slot of the external relocation emitted with a stub, the first byte
\* of the target block of a jump in the .text of the jump
SiteTarget(j) ==
    With([site \in {mcEmitter.sites[j]} |->
       CASE site.kind = "call" ->
              fragments[mcEmitter.sites[j - 1].section].virtualAddress
                  + mcEmitter.sites[j - 1].at
         [] site.kind = "stub" ->
              fragments[relocations[site.relocation].section].virtualAddress
                  + relocations[site.relocation].offset
         [] site.kind \in {"jmp", "jnzIf"} ->
              fragments[site.section].virtualAddress
                  + mcEmitter.blockStart[branches[site.of].targets[1]]
         [] site.kind = "jnzElse" ->
              fragments[site.section].virtualAddress
                  + mcEmitter.blockStart[branches[site.of].targets[2]]])

\* The opcode bytes of a site of each kind
SiteOpcode(kind) ==
    CASE kind = "call" -> <<232>>
      [] kind = "stub" -> <<255, 37>>
      [] kind = "jnzIf" -> <<15, 133>>
      [] kind \in {"jmp", "jnzElse"} -> <<233>>

\* C14: after Layout and InternalLink the disp32 of every Call, Jmp, of both
\* jumps of every Jnz and of every PLT stub satisfies: address of the byte
\* following the disp32 + disp32 = virtual address of the target (name@plt
\* for a call, name@got for a stub, the block symbol of the target for a
\* jump); the address of a block symbol is the .text address of the first
\* byte emitted for the block.
C14_Disp32ReachesTarget ==
    Linked =>
        /\ \A j \in 1..Len(mcEmitter.sites) :
              /\ SiteRefersTo(j) = SiteTarget(j)
              /\ SiteRefersTo(j) = symbolAddressOf(mcEmitter.sites[j].symbol)
              /\ SubSeq(fragments[mcEmitter.sites[j].section].buffer,
                        mcEmitter.sites[j].at + 1,
                        mcEmitter.sites[j].at + Len(mcEmitter.sites[j].opcode))
                    = SiteOpcode(mcEmitter.sites[j].kind)
        /\ \A b \in 1..Len(blocks) :
              /\ symbols[mcEmitter.bbSymbols[b]].section = mcEmitter.textSection
              /\ symbols[mcEmitter.bbSymbols[b]].value = mcEmitter.blockStart[b]

\* A linked Object whose code has a call and the two jumps of a Jnz
C14_Witness ==
    /\ Linked
    /\ \E j \in 1..Len(mcEmitter.sites) : mcEmitter.sites[j].kind = "call"
    /\ \E j \in 1..Len(mcEmitter.sites) : mcEmitter.sites[j].kind = "jnzElse"

\* A linked Object whose code has a Jmp
C14_WitnessJmp ==
    /\ Linked
    /\ \E j \in 1..Len(mcEmitter.sites) : mcEmitter.sites[j].kind = "jmp"

\* ---- C15 ----
\* The emitter has run and the link pass has not yet written the fields
Emitted == pc.phase \in {"emitted", "headers", "laidOut"}

\* The Call instructions of the function, and the sites of a kind
CallsOf == {ck \in (1..Len(blocks)) \X (1..Len(insts)) :
               /\ ck[2] \in Range(blocks[ck[1]].insts)
               /\ insts[ck[2]].kind = "call"}
SitesOf(kinds) == {j \in 1..Len(mcEmitter.sites) : mcEmitter.sites[j].kind \in kinds}

\* The fragments with section name `name`
SectionsNamed(name) ==
    {k \in 1..Len(fragments) :
        fragments[k].name # Null /\ strings[fragments[k].name].buffer = name}

\* The internal relocations at offset `at` of fragment f
InternalAt(f, at) ==
    {k \in 1..Len(internalRelocations) :
        internalRelocations[k].section = f /\ internalRelocations[k].offset = at}

\* What the emitter added for the call of site j (its stub is site j - 1)
CallParts(j) ==
    With([site \in {mcEmitter.sites[j]} |->
    With([stub \in {mcEmitter.sites[j - 1]} |->
    With([callee \in {functionChars(insts[site.of].imm)} |->
    With([rel \in {relocations[site.relocation]} |->
       \* the dynamic symbol
       /\ symbols[site.dynamic].section = Null
       /\ strings[symbols[site.dynamic].name].buffer = callee
       \* the .got slot, its external relocation and name@got
       /\ rel.section \in SectionsNamed(GotName)
       /\ rel.symbol = site.dynamic
       /\ rel.addend = <<>>
       /\ SubSeq(fragments[rel.section].buffer, rel.offset + 1, rel.offset + 8)
              = <<0, 0, 0, 0, 0, 0, 0, 0>>
       /\ \A k \in 1..Len(relocations) :
              (relocations[k].section = rel.section
                  /\ relocations[k].offset = rel.offset) => k = site.relocation
       /\ strings[symbols[stub.symbol].name].buffer = callee \o AtGot
       /\ symbols[stub.symbol].section = rel.section
       /\ symbols[stub.symbol].value = rel.offset
       \* the stub, its internal relocation and name@plt
       /\ stub.kind = "stub" /\ stub.of = site.of
       /\ stub.section \in SectionsNamed(PltName)
       /\ SubSeq(fragments[stub.section].buffer, stub.at + 1, stub.at + 6)
              = <<255, 37, 0, 0, 0, 0>>
       /\ Cardinality(InternalAt(stub.section, stub.at + 2)) = 1
       /\ \A k \in InternalAt(stub.section, stub.at + 2) :
              /\ internalRelocations[k].symbol = stub.symbol
              /\ internalRelocations[k].addend = <<-4>>
       /\ strings[symbols[site.symbol].name].buffer = callee \o AtPlt
       /\ symbols[site.symbol].section = stub.section
       /\ symbols[site.symbol].value = stub.at
       \* the call in .text and its internal relocation
       /\ site.section \in SectionsNamed(TextName)
       /\ SubSeq(fragments[site.section].buffer, site.at + 1, site.at + 5)
              = <<232, 0, 0, 0, 0>>
       /\ Cardinality(InternalAt(site.section, site.at + 1)) = 1
       /\ \A k \in InternalAt(site.section, site.at + 1) :
              /\ internalRelocations[k].symbol = site.symbol
              /\ internalRelocations[k].addend = <<-4>>])])])])

\* C15: for each Call instruction emitted the emitter adds exactly one
\* dynamic symbol for the callee with no section; one 8-byte zero .got slot
\* with one external relocation at the slot targeting the callee symbol and
\* the symbol name@got at the slot; one 6-byte stub FF 25 + 4 zero bytes with
\* an internal relocation at stub + 2 targeting that call's name@got with
\* addend -4 and the symbol name@plt at the stub; and in .text E8 + 4 zero
\* bytes with an internal relocation at site + 1 targeting that call's
\* name@plt with addend -4.
C15_CallArtifacts ==
    Emitted =>
        /\ Cardinality(SitesOf({"call"})) = emitterRuns * Cardinality(CallsOf)
        /\ Cardinality(SitesOf({"stub"})) = emitterRuns * Cardinality(CallsOf)
        /\ Len(relocations) = emitterRuns * Cardinality(CallsOf)
        /\ Cardinality({k \in 1..Len(symbols) : symbols[k].section = Null})
              = emitterRuns * Cardinality(CallsOf)
        /\ Len(symbols) = emitterRuns * (1 + Len(blocks) + 3 * Cardinality(CallsOf))
        /\ Len(internalRelocations)
              = Cardinality(SitesOf({"call", "stub", "jmp", "jnzIf", "jnzElse"}))
        /\ \A k \in SectionsNamed(GotName) :
              Len(fragments[k].buffer) = 8 * Cardinality(CallsOf)
        /\ \A k \in SectionsNamed(PltName) :
              Len(fragments[k].buffer) = 6 * Cardinality(CallsOf)
        /\ \A j \in SitesOf({"call"}) : CallParts(j)

\* The emitter has run on a function with two Call instructions
C15_Witness ==
    /\ Emitted
    /\ Cardinality(CallsOf) = 2
    /\ Cardinality(SitesOf({"call"})) >= 2

\* ---- C16 ----
\* C16: MachineCodeEmitter creates .text, .got and .plt only if they are not
\* already present: after the emitter has run for n >= 1 functions on the
\* same Object, the Object has exactly one .text, one .got and one .plt
\* ByteSection and the code of all functions is in that .text.
C16_OneTextGotPlt ==
    mcEmitter.ran =>
        /\ Cardinality(SectionsNamed(TextName)) = 1
        /\ Cardinality(SectionsNamed(GotName)) = 1
        /\ Cardinality(SectionsNamed(PltName)) = 1
        /\ \A k \in 1..Len(symbols) :
              symbols[k].section # Null =>
                  symbols[k].section \in SectionsNamed(TextName)
                      \cup SectionsNamed(GotName) \cup SectionsNamed(PltName)
        /\ \A j \in SitesOf({"call", "jmp", "jnzIf", "jnzElse"}) :
              mcEmitter.sites[j].section \in SectionsNamed(TextName)

\* What the code does: one .text, .got and .plt per emitter run
C16_SectionsPerRun ==
    mcEmitter.ran =>
        /\ Cardinality(SectionsNamed(TextName)) = emitterRuns
        /\ Cardinality(SectionsNamed(GotName)) = emitterRuns
        /\ Cardinality(SectionsNamed(PltName)) = emitterRuns

\* ---- C17 ----
\* AllocateRegistersPass::run() has returned
AfterAllocation ==
    pc.phase \in {"allocated", "emitted", "aborted", "headers", "laidOut",
                  "linked", "written"}

\* The function has one block without phis and instructions and a
\* FunctionReturnBranch without operands
MinimalRet ==
    /\ Len(blocks) = 1
    /\ blocks[1].phis = <<>>
    /\ blocks[1].genericInsts = <<>>
    /\ blocks[1].genericBranch # Null
    /\ branches[blocks[1].genericBranch].kind = "functionReturn"
    /\ branches[blocks[1].genericBranch].operands = <<>>

\* The instructions of block b of the kinds the prologue and epilogue consist of
FrameInstructions(b) ==
    SelectSeq(blocks[b].insts,
              LAMBDA i : insts[i].kind \in {"pushSave", "popRestore",
                                           "decrementStack", "incrementStack"})

\* C17: for a function of one block with no instructions and a Ret with zero
\* operands the allocator inserts no PushSave, PopRestore, DecrementStack or
\* IncrementStack, and the machine-code emitter completes with .text equal
\* to the single byte C3.
C17_MinimalRet ==
    (AfterAllocation /\ MinimalRet) =>
        /\ FrameInstructions(1) = <<>>
        /\ pc.phase # "aborted"
        /\ mcEmitter.ran =>
              /\ mcEmitter.failed = "none"
              /\ fragments[mcEmitter.textSection].buffer = <<195>>

\* What the code does for the minimal function: the allocator brackets the
\* block with DecrementStack(8) and IncrementStack(8) and the emitter stops
\* at its assertion with an empty .text
C17_MinimalRetAborts ==
    (AfterAllocation /\ MinimalRet) =>
        /\ Len(FrameInstructions(1)) = 2
        /\ insts[FrameInstructions(1)[1]].kind = "decrementStack"
        /\ insts[FrameInstructions(1)[1]].imm = 8
        /\ insts[FrameInstructions(1)[2]].kind = "incrementStack"
        /\ insts[FrameInstructions(1)[2]].imm = 8
        /\ pc.phase \in {"allocated", "aborted"}
        /\ mcEmitter.ran =>
              /\ mcEmitter.failed = "unexpectedInstruction"
              /\ fragments[mcEmitter.textSection].buffer = <<>>

\* ---- C18 ----
\* The DecrementStack and IncrementStack instructions the allocator left in
\* the blocks
StackAdjusts(kind) ==
    {i \in 1..Len(insts) :
        /\ insts[i].kind = kind
        /\ \E b \in 1..Len(blocks) : i \in Range(blocks[b].insts)}

\* The byte string occurs in the buffer
Contains(buffer, bytes) ==
    \E i \in 1..Len(buffer) : SubSeq(buffer, i, i + Len(bytes) - 1) = bytes

\* C18: every instruction kind the allocator can leave in a block is encoded
\* by the machine-code emitter without reaching its "Unexpected x86_64 IR
\* instruction" assertion; DecrementStack(n) and IncrementStack(n) are
\* emitted as SUB RSP, n (48 83 EC n) and ADD RSP, n (48 83 C4 n).
C18_AllKindsEncoded ==
    mcEmitter.ran =>
        /\ mcEmitter.failed # "unexpectedInstruction"
        /\ mcEmitter.failed = "none" =>
              /\ \A i \in StackAdjusts("decrementStack") :
                    Contains(fragments[mcEmitter.textSection].buffer,
                             <<72, 131, 236, insts[i].imm>>)
              /\ \A i \in StackAdjusts("incrementStack") :
                    Contains(fragments[mcEmitter.textSection].buffer,
                             <<72, 131, 196, insts[i].imm>>)

\* What the code does: the emitter reaches that assertion exactly when the
\* function has a DecrementStack, which the instruction loop meets first
C18_AbortsOnStackAdjust ==
    mcEmitter.ran =>
        (mcEmitter.failed = "unexpectedInstruction"
            <=> StackAdjusts("decrementStack") # {})

\* ---- C19 ----
\* The instructions at the end of block b that are PopRestore or
\* IncrementStack, and those at the head of the entry block that are PushSave
\* or DecrementStack
Epilogue(b) ==
    With([l \in {blocks[b].insts} |->
    With([from \in {CHOOSE k \in 1..(Len(l) + 1) :
                       /\ \A j \in k..Len(l) :
                             insts[l[j]].kind \in {"popRestore", "incrementStack"}
                       /\ k = 1 \/ insts[l[k - 1]].kind
                                       \notin {"popRestore", "incrementStack"}} |->
       SubSeq(l, from, Len(l))])])
Prologue ==
    With([l \in {blocks[1].insts} |->
    With([to \in {CHOOSE k \in 0..Len(l) :
                     /\ \A j \in 1..k :
                           insts[l[j]].kind \in {"pushSave", "decrementStack"}
                     /\ k = Len(l) \/ insts[l[k + 1]].kind
                                         \notin {"pushSave", "decrementStack"}} |->
       SubSeq(l, 1, to)])])

\* The registers (PushSave, PopRestore) or sizes (DecrementStack,
\* IncrementStack) of the instructions of one kind in l, in order
OperandsOf(l, kind) ==
    With([sel \in {SelectSeq(l, LAMBDA i : insts[i].kind = kind)} |->
       [k \in 1..Len(sel) |-> insts[sel[k]].imm]])

Reverse(q) == [k \in 1..Len(q) |-> q[Len(q) + 1 - k]]

\* The blocks that end in Ret
RetBlocks == {b \in 1..Len(blocks) : branches[blocks[b].branch].kind = "ret"}

\* C19: in every block that ends in Ret the epilogue before the Ret is
\* IncrementStack(frameSpace) first (when frameSpace # 0), then the
\* PopRestore instructions, whose registers are the PushSave registers of the
\* prologue of the entry block in reverse order: prologue then epilogue
\* restores every saved register and RSP.
C19_EpilogueMirrorsPrologue ==
    pc.phase = "allocated" =>
        \A b \in RetBlocks :
            /\ OperandsOf(Epilogue(b), "incrementStack")
                  = OperandsOf(Prologue, "decrementStack")
            /\ OperandsOf(Epilogue(b), "popRestore")
                  = Reverse(OperandsOf(Prologue, "pushSave"))
            /\ \A i, j \in 1..Len(Epilogue(b)) :
                  (insts[Epilogue(b)[i]].kind = "popRestore"
                      /\ insts[Epilogue(b)[j]].kind = "incrementStack") => j < i

\* What the code does: the same instructions, the IncrementStack last
C19_PopsBeforeIncrement ==
    pc.phase = "allocated" =>
        \A b \in RetBlocks :
            /\ OperandsOf(Epilogue(b), "incrementStack")
                  = OperandsOf(Prologue, "decrementStack")
            /\ OperandsOf(Epilogue(b), "popRestore")
                  = Reverse(OperandsOf(Prologue, "pushSave"))
            /\ \A i, j \in 1..Len(Epilogue(b)) :
                  (insts[Epilogue(b)[i]].kind = "popRestore"
                      /\ insts[Epilogue(b)[j]].kind = "incrementStack") => i < j

\* ------------------------------------------------------------------------
\* Stack frame of the allocator, for every set of used registers
\* ------------------------------------------------------------------------

\* _usedRegisters has one bit per general purpose register (16 of them)
MaxUsedRegisters == 65535

\* The lowered function of one block that returns nothing, as the allocator
\* sees it when _establishAllocation() is called for block 1, with
\* _usedRegisters drawn from all register sets.
InitFrame ==
    /\ vals = <<>> /\ uses = <<>> /\ phis = <<>> /\ edges = <<>> /\ rewrites = <<>>
    /\ insts = <<[kind |-> "pseudoMoveMultiple", operands |-> <<>>, results |-> <<>>,
                  imm |-> 0, bb |-> 1]>>
    /\ blocks = <<[insts |-> <<1>>, phis |-> <<>>, edges |-> <<>>, branch |-> 2,
                   lowered |-> TRUE, genericInsts |-> <<>>, genericBranch |-> 1]>>
    /\ branches = <<[kind |-> "functionReturn", operands |-> <<>>, targets |-> <<>>],
                    [kind |-> "ret", operands |-> <<>>, targets |-> <<>>]>>
    /\ lastOp = NoOp
    /\ \E u \in 0..MaxUsedRegisters : allocator = [RaEmpty EXCEPT !.usedRegisters = u]
    /\ ElfInitEmpty
    /\ pc = [phase |-> "establish", block |-> 1]

NextFrame == \E b \in 1..Len(blocks) : EstablishAllocation(b)

SpecFrame == InitFrame /\ [][NextFrame]_vars

\* ---- C20 ----
\* Register numbers of RBX, RBP, R12, R13, R14, R15
CalleeSaved == {3, 5, 12, 13, 14, 15}

\* Bytes the prologue takes from the stack: 8 for each PushSave and the
\* immediate of each DecrementStack
PrologueBytes ==
    8 * Len(OperandsOf(Prologue, "pushSave"))
      + With([d \in {OperandsOf(Prologue, "decrementStack")} |->
           IF d = <<>> THEN 0 ELSE d[1]])

\* C20: for every value of usedRegisters the allocator establishes the
\* frame without failing, saves 8 bytes for each register of
\* usedRegisters & 0xF028, these registers being exactly the used ones among
\* RBX, RBP, R12..R15, and frameSpace + saveSpace is 8 modulo 16, so that RSP,
\* 8 modulo 16 at function entry, is 0 modulo 16 after the prologue.
C20_FrameAlignment ==
    /\ {i \in 0..15 : HasBit(callerRegs, i)} = CalleeSaved
    /\ (pc.phase # "establish" /\ Len(blocks) = 1) =>
          /\ allocator.fail = "none"
          /\ pc.phase # "failed"
          /\ Len(OperandsOf(Prologue, "decrementStack")) <= 1
          /\ Range(OperandsOf(Prologue, "pushSave"))
                = {i \in CalleeSaved : HasBit(allocator.usedRegisters, i)}
          /\ Len(OperandsOf(Prologue, "pushSave"))
                = PopCount(BitAnd(allocator.usedRegisters, callerRegs))
          /\ PrologueBytes % 16 = 8
          \* RSP is 8 modulo 16 at function entry (the return address is pushed)
          /\ (8 - PrologueBytes) % 16 = 0

\* All six callee-saved registers are saved and the frame is padded by 8
C20_Witness ==
    /\ pc.phase = "allocated"
    /\ Range(OperandsOf(Prologue, "pushSave")) = CalleeSaved
    /\ OperandsOf(Prologue, "decrementStack") = <<8>>

\* An odd number of registers is saved and the frame is not padded
C20_WitnessOdd ==
    /\ pc.phase = "allocated"
    /\ OperandsOf(Prologue, "pushSave") = <<3, 12, 15>>
    /\ OperandsOf(Prologue, "decrementStack") = <<>>

\* ------------------------------------------------------------------------
\* Allocation claims
\* ------------------------------------------------------------------------

\* ---- C21 ----
\* The compound that the next turn of the allocation loops takes
FrontCompound ==
    IF allocator.restrictedQueue # <<>> THEN Head(allocator.restrictedQueue)
    ELSE Head(allocator.unrestrictedQueue)

\* Register r is that of an allocated interval that overlaps an interval of
\* the compound and has another equivalencePointer
BlockedFor(compound, r) ==
    \E n \in Range(allocator.compounds[compound].intervals) :
       \E a \in Range(allocator.allocated) :
          /\ pcLessEq(IR, allocator.intervals[a].originPc, allocator.intervals[n].finalPc)
          /\ pcLessEq(IR, allocator.intervals[n].originPc, allocator.intervals[a].finalPc)
          /\ allocator.intervals[a].equivalencePointer
                # allocator.intervals[n].equivalencePointer
          /\ allocator.compounds[allocator.intervals[a].compound].allocatedRegister = r

AllBlocked(compound) ==
    \A r \in 0..15 :
       HasBit(allocator.compounds[compound].possibleRegisters, r)
          => BlockedFor(compound, r)

\* C21: _allocateCompound raises the 'live range splitting' error exactly
\* when every possible register of the compound is blocked by an overlapping
\* allocated interval with another equivalencePointer, and then the compound
\* is unallocated, none of its intervals is in the tree of allocated
\* intervals, no register of a Value has been set and usedRegisters is
\* unchanged.
C21_InfeasibleChangesNothing ==
    [][(pc.phase = "allocate" /\ allocator.compounds[FrontCompound].allocatedRegister < 0)
          => /\ (allocator'.fail = "infeasible") = AllBlocked(FrontCompound)
             /\ allocator'.fail = "infeasible" =>
                   /\ pc'.phase = "failed"
                   /\ allocator'.compounds[FrontCompound].allocatedRegister = -1
                   /\ allocator'.allocated = allocator.allocated
                   /\ \A n \in Range(allocator'.compounds[FrontCompound].intervals) :
                         n \notin Range(allocator'.allocated)
                   /\ vals' = vals
                   /\ allocator'.usedRegisters = allocator.usedRegisters
                   /\ allocator'.achievedCost = allocator.achievedCost]_vars

\* The allocation failed for a compound with intervals, while other
\* compounds are allocated
C21_Witness ==
    /\ pc.phase = "failed"
    /\ allocator.fail = "infeasible"
    /\ allocator.allocated # <<>>
    /\ \E c \in 1..Len(allocator.compounds) :
          /\ allocator.compounds[c].allocatedRegister = -1
          /\ allocator.compounds[c].intervals # <<>>
          /\ allocator.compounds[c].possibleRegisters # 0
          /\ AllBlocked(c)
          /\ c \notin Range(allocator.restrictedQueue)
          /\ c \notin Range(allocator.unrestrictedQueue)

\* ---- C22 ----
Compounds == 1..Len(allocator.compounds)
OneRegister(c) == PopCount(allocator.compounds[c].possibleRegisters) = 1
ManyRegisters(c) == PopCount(allocator.compounds[c].possibleRegisters) > 1
Allocated(c) == allocator.compounds[c].allocatedRegister >= 0

\* The allocation loops are running or have ended
Allocating == pc.phase = "allocate" \/ (pc.phase = "establish" /\ pc.block = 1)

\* Each compound is in at most one queue, at most once, and a queued compound
\* is unallocated; once the queues are filled every compound with intervals
\* is either queued or allocated
QueuedOnce ==
    /\ NoDuplicates(allocator.restrictedQueue \o allocator.unrestrictedQueue)
    /\ \A c \in Range(allocator.restrictedQueue \o allocator.unrestrictedQueue) :
          ~Allocated(c)
    /\ Allocating =>
          \A c \in Compounds :
             allocator.compounds[c].intervals # <<>> =>
                (Allocated(c)
                    # (c \in Range(allocator.restrictedQueue
                                     \o allocator.unrestrictedQueue)))

\* C22: every compound with exactly one possible register is placed in the
\* restricted queue and is allocated before any compound with more than one
\* possible register; each compound is allocated once.
C22_OneRegisterFirst ==
    /\ QueuedOnce
    /\ \A c \in Compounds :
          OneRegister(c) => c \notin Range(allocator.unrestrictedQueue)
    /\ Allocating =>
          \A c, d \in Compounds :
             (OneRegister(c) /\ ManyRegisters(d) /\ Allocated(d)) => Allocated(c)

\* What the code does: the compounds pushed for calls and Ret are in the
\* restricted queue and are allocated first; the compound of an ArgumentPhi,
\* with the one register 0x80, is in the unrestricted queue.
C22_ArgumentPhiUnrestricted ==
    /\ QueuedOnce
    /\ \A c \in Compounds :
          (OneRegister(c) /\ c \notin Range(allocator.phiCompounds))
             => c \notin Range(allocator.unrestrictedQueue)
    /\ \A c \in Compounds :
          ManyRegisters(c) => c \notin Range(allocator.restrictedQueue)
    /\ Allocating =>
          \A c, d \in Compounds :
             (OneRegister(c) /\ c \notin Range(allocator.phiCompounds)
                 /\ ManyRegisters(d) /\ Allocated(d)) => Allocated(c)
    /\ \A k \in 1..Len(allocator.phiCompounds) :
          (phis[k].phiKind = "argument" /\ ~Allocated(allocator.phiCompounds[k])
              /\ allocator.compounds[allocator.phiCompounds[k]].intervals # <<>>
              /\ pc.phase \in {"collect", "allocate"})
             => allocator.phiCompounds[k] \in Range(allocator.unrestrictedQueue)

\* Each turn of the allocation loops takes the front of its queue, the
\* restricted queue first, and leaves the rest of both queues in order
C22_Fifo ==
    [][(pc.phase = "allocate" /\ allocator'.fail = "none")
          => /\ allocator'.compounds[FrontCompound].allocatedRegister >= 0
             /\ allocator.restrictedQueue # <<>> =>
                   /\ allocator'.restrictedQueue = Tail(allocator.restrictedQueue)
                   /\ allocator'.unrestrictedQueue = allocator.unrestrictedQueue
             /\ allocator.restrictedQueue = <<>> =>
                   /\ allocator'.restrictedQueue = <<>>
                   /\ allocator'.unrestrictedQueue = Tail(allocator.unrestrictedQueue)]_vars

\* ---- C23 ----
PseudoKinds == {"pseudoMoveSingle", "pseudoMoveMultiple"}

\* _establishAllocation(pc.block) returns
Established == pc.phase = "establish" /\ pc'.phase \in {"establish", "allocated"}

\* Instruction n of the new list is where instruction p of the old list was:
\* the instructions that are in both lists are on the same side of them
SamePlace(old, p, new, n) ==
    \A s \in Range(old) \cap Range(new) :
       (IndexOf(old, s) < IndexOf(old, p)) = (IndexOf(new, s) < IndexOf(new, n))

\* The PseudoMoveSingles of block b whose operand and result have the same
\* register
Fusing(b) ==
    {p \in Range(blocks[b].insts) :
        /\ insts[p].kind = "pseudoMoveSingle"
        /\ vals[uses[insts[p].operands[1]].ref].reg = vals[insts[p].results[1]].reg}

\* The value that v stands for when the pseudo-moves in front of its use have
\* been rewritten: the result of a fused move has been replaced by its operand
RECURSIVE OperandAtRewrite(_, _)
OperandAtRewrite(b, v) ==
    IF \E p \in Fusing(b) : insts[p].results[1] = v
    THEN OperandAtRewrite(b, uses[insts[CHOOSE p \in Fusing(b) :
                                          insts[p].results[1] = v].operands[1]].ref)
    ELSE v

\* The PseudoMoveSingle p of block b has become a Nop, and the uses of its
\* result in instructions that stay refer to its operand
FusedToNop(b, p) ==
    /\ \E n \in (Len(insts) + 1)..Len(insts') :
          /\ insts'[n].kind = "nop"
          /\ n \in Range(blocks'[b].insts)
          /\ SamePlace(blocks[b].insts, p, blocks'[b].insts, n)
    /\ vals'[insts[p].results[1]].useList = <<>>
    /\ \A u \in Range(vals[insts[p].results[1]].useList) :
          (uses[u].inst = Null \/ insts[uses[u].inst].kind \notin PseudoKinds)
             => uses'[u].ref = OperandAtRewrite(b, uses[insts[p].operands[1]].ref)

\* The PseudoMoveSingle p of block b has become a MovMR of its operand to its
\* result
MovedByMovMR(b, p) ==
    \E m \in (Len(insts) + 1)..Len(insts') :
       /\ insts'[m].kind = "movMR"
       /\ m \in Range(blocks'[b].insts)
       /\ SamePlace(blocks[b].insts, p, blocks'[b].insts, m)
       /\ Len(insts'[m].operands) = 1
       /\ uses'[insts'[m].operands[1]].ref
             = OperandAtRewrite(b, uses[insts[p].operands[1]].ref)
       /\ insts'[m].results = <<insts[p].results[1]>>

\* C23: when _establishAllocation returns for a block no PseudoMoveSingle or
\* PseudoMoveMultiple is left in it; each PseudoMoveSingle has been replaced at
\* its position by a Nop if its operand and its result have the same
\* register (the uses of the result then refer to the operand), and by a
\* MovMR from the operand to the result otherwise.
C23_PseudoMovesRewritten ==
    [][Established =>
          /\ \A i \in Range(blocks'[pc.block].insts) : insts'[i].kind \notin PseudoKinds
          /\ \A p \in Range(blocks[pc.block].insts) :
                insts[p].kind = "pseudoMoveSingle" =>
                   IF p \in Fusing(pc.block)
                   THEN FusedToNop(pc.block, p)
                   ELSE MovedByMovMR(pc.block, p)]_vars

\* After run() no block has a pseudo-move
C23_NoPseudoMoveLeft ==
    AfterAllocation =>
       \A b \in 1..Len(blocks) :
          \A i \in Range(blocks[b].insts) : insts[i].kind \notin PseudoKinds

\* run() has ended for a function in which one PseudoMoveSingle became a Nop
\* and another a MovMR
C23_Witness ==
    /\ pc.phase = "allocated"
    /\ \A b \in 1..Len(blocks) :
          \A i \in Range(blocks[b].insts) : insts[i].kind \notin PseudoKinds
    /\ \E i, j \in 1..Len(insts) :
          /\ insts[i].kind = "pseudoMoveSingle"
          /\ insts[i].results[1] # Null
          /\ vals[insts[i].results[1]].useList = <<>>
          /\ insts[j].kind = "pseudoMoveSingle"
          /\ insts[j].results[1] = Null
          /\ \E n, m \in Range(blocks[1].insts) :
                /\ insts[n].kind = "nop"
                /\ insts[m].kind = "movMR"

\* ------------------------------------------------------------------------
\* SpecMoves: _establishAllocation on a block with one PseudoMoveMultiple,
\* for every assignment of registers to its operands and results
\* ------------------------------------------------------------------------

\* At most MaxMoves operand/result pairs, in the registers 0..MaxMoveRegister
MaxMoves == 3
MaxMoveRegister == 3

MoveRegisters == 0..MaxMoveRegister

\* The assignments: a register for each operand and for each result, the
\* result registers distinct (two results that are alive together)
MoveAssignments ==
    UNION {{[operands |-> o, results |-> r] :
              o \in [1..n -> MoveRegisters],
              r \in {q \in [1..n -> MoveRegisters] : NoDuplicates(q)}} :
           n \in 1..MaxMoves}

\* The Value that lives in register g in front of the pseudo-move, and the
\* Value of the k-th result
ValueIn(g) == g + 1
ResultValue(k) == MaxMoveRegister + 1 + k

\* The function: one lowered block with the PseudoMoveMultiple (instruction 1)
\* and a Ret
MoveFunction(a) ==
    With([n \in {Len(a.operands)} |->
    With([ir0 \in {[vals |-> [v \in 1..(MaxMoveRegister + 1 + n) |->
                                [NewValue("registerMode", "none", "qword", 0, 1)
                                    EXCEPT !.reg = IF v <= MaxMoveRegister + 1
                                                   THEN v - 1
                                                   ELSE a.results[v - MaxMoveRegister - 1]]],
                    uses |-> <<>>, insts |-> <<>>, blocks |-> <<>>,
                    branches |-> <<>>, phis |-> <<>>, edges |-> <<>>,
                    rewrites |-> <<>>]} |->
    With([ir1 \in {newInstruction(addBlock(ir0), "pseudoMoveMultiple", 0)} |->
    With([ir2 \in {addOperands(ir1, 1, [k \in 1..n |-> ValueIn(a.operands[k])])} |->
    With([ir3 \in {insertInstruction(
                      [ir2 EXCEPT !.insts[1].results = [k \in 1..n |-> ResultValue(k)]],
                      1, Null, 1)} |->
    With([ir4 \in {newBranch(newBranch(ir3, "functionReturn", <<>>, <<>>),
                             "ret", <<>>, <<>>)} |->
       [ir4 EXCEPT !.blocks[1].branch = 2, !.blocks[1].genericBranch = 1,
                   !.blocks[1].lowered = TRUE]])])])])])])

\* The intervals of the result values, from behind the pseudo-move to the end
\* of the block, each in a compound with its register
RECURSIVE resultIntervals(_, _, _)
resultIntervals(ra, a, k) ==
    IF k > Len(a.results) THEN ra
    ELSE With([ra1 \in {newCompound(ra, Pow2(a.results[k]))} |->
            resultIntervals(
               newInterval([ra1 EXCEPT !.compounds[Len(ra1.compounds)].allocatedRegister
                                          = a.results[k],
                                       !.allocated = Append(@, Len(ra1.intervals) + 1),
                                       !.usedRegisters = BitOr(@, Pow2(a.results[k]))],
                           Len(ra1.compounds), ResultValue(k), Null,
                           ProgramCounter(1, inBlock, 1, afterInstruction),
                           ProgramCounter(1, afterBlock, Null, afterInstruction)),
               a, k + 1)])

\* The intervals of the operand values, from the begin of the block to the
\* pseudo-move, one for each register that is an operand
RECURSIVE operandIntervals(_, _, _)
operandIntervals(ra, a, g) ==
    IF g > MaxMoveRegister THEN ra
    ELSE IF g \notin Range(a.operands) THEN operandIntervals(ra, a, g + 1)
    ELSE With([ra1 \in {newCompound(ra, gprMask)} |->
            operandIntervals(
               newInterval([ra1 EXCEPT !.compounds[Len(ra1.compounds)].allocatedRegister = g,
                                       !.allocated = Append(@, Len(ra1.intervals) + 1),
                                       !.usedRegisters = BitOr(@, Pow2(g))],
                           Len(ra1.compounds), ValueIn(g), Null,
                           ProgramCounter(1, beforeBlock, Null, afterInstruction),
                           ProgramCounter(1, inBlock, 1, beforeInstruction)),
               a, g + 1)])

\* The allocator when both allocation loops have ended
MoveAllocator(a) == resultIntervals(operandIntervals(RaEmpty, a, 0), a, 1)

InitMoves ==
    /\ \E a \in MoveAssignments :
          /\ \E ir \in {MoveFunction(a)} :
                /\ vals = ir.vals /\ uses = ir.uses /\ insts = ir.insts
                /\ blocks = ir.blocks /\ branches = ir.branches /\ phis = ir.phis
                /\ edges = ir.edges /\ rewrites = ir.rewrites
          /\ allocator = MoveAllocator(a)
    /\ lastOp = NoOp
    /\ ElfInitEmpty
    /\ pc = [phase |-> "establish", block |-> 1]

NextMoves == \E b \in 1..Len(blocks) : EstablishAllocation(b)

SpecMoves == InitMoves /\ [][NextMoves]_vars

\* ---- C24 ----
\* The PseudoMoveMultiple of the block that is established next
TheMove ==
    CHOOSE p \in Range(blocks[pc.block].insts) : insts[p].kind = "pseudoMoveMultiple"

HasMove ==
    /\ pc.phase = "establish"
    /\ \E p \in Range(blocks[pc.block].insts) : insts[p].kind = "pseudoMoveMultiple"

Pairs == 1..Len(insts[TheMove].operands)
OperandRegister(k) == vals[uses[insts[TheMove].operands[k]].ref].reg
ResultRegister(k) == vals[insts[TheMove].results[k]].reg

\* The pairs that need a move: self-loops removed
MovingPairs == {k \in Pairs : OperandRegister(k) # ResultRegister(k)}

DistinctResults ==
    \A j, k \in Pairs : j # k => ResultRegister(j) # ResultRegister(k)

\* The register that is moved to register g, None if g is not a target
MovedTo(g) ==
    IF \E k \in MovingPairs : ResultRegister(k) = g
    THEN OperandRegister(CHOOSE k \in MovingPairs : ResultRegister(k) = g)
    ELSE None

\* The register reached from g by n steps against the moves
RECURSIVE Back(_, _)
Back(g, n) == IF n = 0 \/ g = None THEN g ELSE Back(MovedTo(g), n - 1)

OnCycle(g) == \E n \in 1..16 : Back(g, n) = g
Acyclic == \A g \in 0..15 : ~OnCycle(g)

\* The instructions of kind `kind` in the list l of a block, in their order
EmittedOfKind(ins, l, kind) == SelectSeq(l, LAMBDA i : ins[i].kind = kind)

\* The registers after the moves m[k..] have been executed on the register
\* file regs; vs, us and ins are the Values, ValueUses and instructions
RECURSIVE Execute(_, _, _, _, _, _)
Execute(ins, vs, us, m, k, regs) ==
    IF k > Len(m) THEN regs
    ELSE Execute(ins, vs, us, m, k + 1,
                 [regs EXCEPT ![vs[ins[m[k]].results[1]].reg] =
                                  regs[vs[us[ins[m[k]].operands[1]].ref].reg]])

\* C24: if the move graph of a PseudoMoveMultiple with distinct result
\* registers is acyclic, the MovMR instructions emitted for it, executed in
\* their order, leave in every result register what its operand register held
\* before the first move.
C24_ParallelCopy ==
    [][(HasMove /\ DistinctResults /\ Acyclic)
          => /\ pc'.phase # "failed"
             /\ \A k \in Pairs :
                   Execute(insts', vals', uses',
                           EmittedOfKind(insts', blocks'[pc.block].insts, "movMR"), 1,
                           [g \in 0..15 |-> g])[ResultRegister(k)]
                      = OperandRegister(k)]_vars

\* A chain of three moves has been emitted: the second reads what the third
\* writes, the first reads what the second writes
C24_Witness ==
    /\ pc.phase = "allocated"
    /\ \E m \in {EmittedOfKind(insts, blocks[1].insts, "movMR")} :
          /\ Len(m) = 3
          /\ vals[uses[insts[m[2]].operands[1]].ref].reg = vals[insts[m[3]].results[1]].reg
          /\ vals[uses[insts[m[1]].operands[1]].ref].reg = vals[insts[m[2]].results[1]].reg

\* ---- C25 ----
\* The MovMRs in the block after the step, in their order, and the registers
\* they read and write
MovesAfter == EmittedOfKind(insts', blocks'[pc.block].insts, "movMR")
ReadBy(m) == vals'[uses'[insts'[m].operands[1]].ref].reg
WrittenBy(m) == vals'[insts'[m].results[1]].reg

\* C25: of the moves emitted for one PseudoMoveMultiple, whether
\* _establishAllocation returns or fails, a move that writes register R comes
\* after the moves of all pairs that read R, no later move reads a register
\* that has been written, and every target is moved to at most once, so that
\* the tail loop ends after at most one move for each pair.
C25_ReadsBeforeWrite ==
    [][HasMove =>
          /\ \A i \in 1..Len(MovesAfter) :
                \A k \in MovingPairs :
                   OperandRegister(k) = WrittenBy(MovesAfter[i])
                      => \E j \in 1..(i - 1) :
                            insts'[MovesAfter[j]].results
                               = <<insts[TheMove].results[k]>>
          /\ \A i, j \in 1..Len(MovesAfter) :
                i < j => /\ ReadBy(MovesAfter[j]) # WrittenBy(MovesAfter[i])
                         /\ WrittenBy(MovesAfter[j]) # WrittenBy(MovesAfter[i])
          /\ Len(MovesAfter) <= Cardinality(MovingPairs)
          /\ \A i \in 1..Len(MovesAfter) :
                \E k \in MovingPairs :
                   /\ insts'[MovesAfter[i]].results = <<insts[TheMove].results[k]>>
                   /\ ReadBy(MovesAfter[i]) = OperandRegister(k)]_vars

\* Two moves read a register and a third one, emitted after them, writes it
C25_Witness ==
    /\ pc.phase = "allocated"
    /\ \E m \in {EmittedOfKind(insts, blocks[1].insts, "movMR")} :
          /\ Len(m) = 3
          /\ vals[uses[insts[m[1]].operands[1]].ref].reg = vals[insts[m[3]].results[1]].reg
          /\ vals[uses[insts[m[2]].operands[1]].ref].reg = vals[insts[m[3]].results[1]].reg

\* ---- C26 ----
\* Registers a and b are exchanged by the pseudo-move and no other move reads
\* a or b: a cycle of length 2 that no move leaves
PureSwap(a, b) ==
    /\ a # b
    /\ MovedTo(a) = b /\ MovedTo(b) = a
    /\ \A k \in MovingPairs :
          OperandRegister(k) \in {a, b} => ResultRegister(k) \in {a, b}

\* The values that the block's XchgMR instructions after the step exchange
ExchangedAfter ==
    {{vals'[uses'[insts'[x].operands[1]].ref].reg,
      vals'[uses'[insts'[x].operands[2]].ref].reg} :
        x \in {i \in Range(blocks'[pc.block].insts) :
                  insts'[i].kind = "xchgMR" /\ Len(insts'[i].operands) = 2}}

\* C26: a cycle of length 2 in the move graph, with no other move leaving it,
\* is resolved by one XchgMR of the two registers in place of the pseudo-move.
C26_SwapByXchg ==
    [][(HasMove /\ DistinctResults)
          => \A a, b \in 0..15 :
                PureSwap(a, b) =>
                   /\ pc'.phase # "failed"
                   /\ {a, b} \in ExchangedAfter
                   /\ Cardinality({i \in Range(blocks'[pc.block].insts) :
                                      insts'[i].kind = "xchgMR"}) >= 1]_vars

\* What the code does: no XchgMR is ever inserted; for a cycle that no move
\* leaves _establishAllocation returns, and no instruction has been emitted
\* for the pairs of the cycle
C26_SwapDropped ==
    [][(HasMove /\ DistinctResults)
          => /\ \A i \in Range(blocks'[pc.block].insts) : insts'[i].kind # "xchgMR"
             /\ \A a, b \in 0..15 :
                   PureSwap(a, b) =>
                      \A i \in 1..Len(MovesAfter) :
                         WrittenBy(MovesAfter[i]) \notin {a, b}
             /\ (\A g \in 0..15 : OnCycle(g) =>
                    \A k \in MovingPairs : OperandRegister(k) = g => OnCycle(ResultRegister(k)))
                   => pc'.phase = "allocated"]_vars

\* ---- C27 ----
\* The pseudo-move is no longer in its block after the step
ErasedAfter == TheMove \notin Range(blocks'[pc.block].insts)

\* The instructions of the block after the step that move to the result of
\* pair k
MovesOfPair(k) ==
    {i \in Range(blocks'[pc.block].insts) :
        /\ insts'[i].kind \in {"movMR", "xchgMR"}
        /\ insts[TheMove].results[k] \in Range(insts'[i].results)}

\* C27: when the PseudoMoveMultiple is erased, exactly one move has been
\* emitted for every pair whose registers differ; for pairs on a cycle the
\* pass emits code or fails.
C27_NoPairLeftBehind ==
    [][(HasMove /\ DistinctResults /\ ErasedAfter)
          => \A k \in MovingPairs : Cardinality(MovesOfPair(k)) = 1]_vars

\* What the code does: the pairs that are not on a cycle have their one move
\* when the pseudo-move is erased, the pairs on a cycle have none
C27_CyclePairsLeftBehind ==
    [][(HasMove /\ DistinctResults /\ ErasedAfter)
          => \A k \in MovingPairs :
                Cardinality(MovesOfPair(k))
                   = IF OnCycle(ResultRegister(k)) THEN 0 ELSE 1]_vars

\* ---- C28 ----
\* RAX, RCX, RDX, RSI, RDI, R8, R9, R10, R11
CallClobbered == {0, 1, 2, 6, 7, 8, 9, 10, 11}

\* The Call instructions in the blocks
Calls ==
    {c \in 1..Len(insts) :
        insts[c].kind = "call" /\ insts[c].bb # Null
           /\ c \in Range(blocks[insts[c].bb].insts)}

AtCall(c) == ProgramCounter(insts[c].bb, inBlock, c, atInstruction)

\* The PseudoMoveMultiple in front of the call c
OperandMoveOf(c) ==
    With([l \in {blocks[insts[c].bb].insts} |-> l[IndexOf(l, c) - 1]])

\* Interval n begins before the call c and ends after it
LiveAcross(n, c) ==
    /\ pcLess(IR, allocator.intervals[n].originPc, AtCall(c))
    /\ pcLess(IR, AtCall(c), allocator.intervals[n].finalPc)

\* Interval n of a compound that has register g only lies between the
\* operand pseudo-move of c and the end of c
PinnedAt(n, c, g) ==
    /\ allocator.compounds[allocator.intervals[n].compound].possibleRegisters = Pow2(g)
    /\ pcLessEq(IR, ProgramCounter(insts[c].bb, inBlock, OperandMoveOf(c),
                                   afterInstruction),
                allocator.intervals[n].originPc)
    /\ pcLessEq(IR, allocator.intervals[n].originPc,
                ProgramCounter(insts[c].bb, inBlock, c, afterInstruction))

\* The intervals are collected and the registers are being assigned or have
\* been assigned, and no block has been rewritten yet
Assigning == pc.phase = "allocate" \/ (pc.phase = "establish" /\ pc.block = 1)

\* C28: for every Call, each of RAX, RCX, RDX, RSI, RDI, R8..R11 is pinned by
\* an interval between the operand pseudo-move and the end of the call, and no
\* interval that begins before the call and ends after it has one of these
\* registers.
C28_NothingLiveInClobbered ==
    Assigning =>
       \A c \in Calls :
          /\ \A g \in CallClobbered :
                \E n \in 1..Len(allocator.intervals) : PinnedAt(n, c, g)
          /\ \A n \in 1..Len(allocator.intervals) :
                LiveAcross(n, c) => registerOf(allocator, n) \notin CallClobbered

\* All registers are assigned, and a value that is live across a call has a
\* register
C28_Witness ==
    /\ pc.phase = "establish" /\ pc.block = 1
    /\ \E c \in Calls :
          \E n \in 1..Len(allocator.intervals) :
             /\ LiveAcross(n, c)
             /\ allocator.intervals[n].associatedValue # Null
             /\ registerOf(allocator, n) >= 0

\* ---- C29 ----
\* The instructions of block b with an operand that refers to v
UsersIn(b, v) ==
    {i \in Range(blocks[b].insts) :
        \E u \in Range(insts[i].operands) : uses[u].ref = v}

BeforeInst(b, i) == ProgramCounter(b, inBlock, i, beforeInstruction)

\* The user of v in block b with the largest index
LastUserIn(b, v) ==
    CHOOSE i \in UsersIn(b, v) :
       \A j \in UsersIn(b, v) :
          indexOfInstruction(IR, b, j) <= indexOfInstruction(IR, b, i)

\* C29: when the registers are assigned, the interval of every value begins
\* at or before each use of the value in the interval's block and ends at the
\* use with the largest instruction index, or where it begins if the value
\* has no use; and no interval in the tree ends before it begins.
C29_IntervalsCoverUses ==
    Assigning =>
       /\ \A n \in 1..Len(allocator.intervals) :
             \E i \in {allocator.intervals[n]} :
                i.associatedValue # Null =>
                   /\ \A user \in UsersIn(i.originPc.block, i.associatedValue) :
                         /\ pcLessEq(IR, i.originPc, BeforeInst(i.originPc.block, user))
                         /\ pcLessEq(IR, BeforeInst(i.originPc.block, user), i.finalPc)
                   /\ UsersIn(i.originPc.block, i.associatedValue) # {} =>
                         i.finalPc = BeforeInst(i.originPc.block,
                                         LastUserIn(i.originPc.block, i.associatedValue))
                   /\ vals[i.associatedValue].useList = <<>> => i.finalPc = i.originPc
       /\ \A n \in Range(allocator.allocated) :
             pcLessEq(IR, allocator.intervals[n].originPc, allocator.intervals[n].finalPc)

\* A value with two users in its block has its interval up to the second one,
\* and a value without a use has an interval that ends where it begins
C29_Witness ==
    /\ Assigning
    /\ \E n, m \in 1..Len(allocator.intervals) :
          /\ allocator.intervals[n].associatedValue # Null
          /\ Cardinality(UsersIn(allocator.intervals[n].originPc.block,
                                 allocator.intervals[n].associatedValue)) >= 2
          /\ n \in Range(allocator.allocated)
          /\ allocator.intervals[m].associatedValue # Null
          /\ vals[allocator.intervals[m].associatedValue].useList = <<>>
          /\ allocator.intervals[m].finalPc = allocator.intervals[m].originPc

\* ---- C30 ----
\* What FileEmitter writes for an entry of buckets or chains: the
\* designatedIndex of the symbol it points to, 0 for a null pointer.
EmittedIndex(p) == IF p = Null THEN 0 ELSE symbols[p].designatedIndex

\* The symbol whose symbol-table index is i
SymbolAt(i) == CHOOSE s \in 1..Len(symbols) : symbols[s].designatedIndex = i

\* The bucket a lookup of symbol s starts from
BucketOf(s, bucketCount) == elf64Hash(strings[symbols[s].name].buffer) % bucketCount

\* The symbol-table indices a lookup visits when it starts at index i and
\* follows chains for at most n steps.
RECURSIVE HashWalk(_, _, _)
HashWalk(hash, i, n) ==
    IF i = 0 \/ n = 0 THEN {}
    ELSE {i} \cup HashWalk(hash, EmittedIndex(hash.chains[i + 1]), n - 1)

\* The walk from index i meets a 0 entry within n steps.
RECURSIVE HashWalkEnds(_, _, _)
HashWalkEnds(hash, i, n) ==
    IF i = 0 THEN TRUE
    ELSE IF n = 0 THEN FALSE
    ELSE HashWalkEnds(hash, EmittedIndex(hash.chains[i + 1]), n - 1)

HashIndexes(hash) ==
    With([bucketCount \in {ceil2Power(Len(symbols))} |->
        /\ Len(hash.buckets) = bucketCount
        /\ Len(hash.chains) = Len(symbols) + 1
        /\ \A s \in 1..Len(symbols) :
              symbols[s].designatedIndex
                  \in HashWalk(hash, EmittedIndex(hash.buckets[BucketOf(s, bucketCount) + 1]),
                               Len(symbols))
        /\ \A b \in 0..(bucketCount - 1) :
              /\ HashWalkEnds(hash, EmittedIndex(hash.buckets[b + 1]), Len(symbols))
              /\ \A i \in HashWalk(hash, EmittedIndex(hash.buckets[b + 1]), Len(symbols)) :
                    BucketOf(SymbolAt(i), bucketCount) = b])

\* C30: after LayoutPass::run() the hash table indexes the symbol table: there
\* are ceil2Power(symbolCount) buckets, the walk from the bucket of a symbol's
\* name along chains reaches the symbol, every walk meets a 0 entry within
\* symbolCount steps, and a bucket's walk visits only symbols of that bucket.
C30_HashIndexesSymbols ==
    LaidOut =>
        \A k \in 1..Len(fragments) :
            fragments[k].kind = "hashSection" => HashIndexes(fragments[k])

\* What the code does: the table is such an index when the run filled a
\* HashSection that no earlier run had filled (resize keeps the old entries
\* of buckets and chains, and the loop overwrites only the entries it links).
FreshlyFilled == LaidOut /\ layoutRuns = 1

C30_FirstLayoutIndexes ==
    FreshlyFilled =>
        \A k \in 1..Len(fragments) :
            fragments[k].kind = "hashSection" => HashIndexes(fragments[k])

\* Two symbols share a bucket after the first run: the chain is followed.
C30_FirstLayoutCollision ==
    /\ FreshlyFilled
    /\ \E k \in 1..Len(fragments) :
          /\ fragments[k].kind = "hashSection"
          /\ \E b \in 1..Len(fragments[k].buckets) :
                Cardinality(HashWalk(fragments[k], EmittedIndex(fragments[k].buckets[b]),
                                     Len(symbols))) >= 2

====
